---- MODULE Spec2Model ----
(***************************************************************************)
(* Motor-Monitor firmware: tick source, ADC/DMA sampler and protection     *)
(* loop, quadrature encoder position/speed, buttons, motor control and     *)
(* the OLED menu engine. Each subsystem has its own specification over     *)
(* the shared variables.                                                   *)
(***************************************************************************)
EXTENDS Integers, Sequences, FiniteSets, TLC

VARIABLES
    system_tick_ms,            \* volatile uint32_t, incremented by SysTick_Handler
    current_timer,             \* SysTick_Timer_t gating current_handler
    current_adcBuffer,         \* volatile uint16_t[200], written by DMA2 Stream0
    dmaHalf,                   \* half of the ring the circular stream fills next (0 or 1)
    HTIF0,                     \* DMA2->LISR half-transfer flag of stream 0
    TCIF0,                     \* DMA2->LISR transfer-complete flag of stream 0
    current_adcAverageReady,   \* volatile uint8_t, "batch ready"
    sum,                       \* uint32_t accumulator of the averaging loop
    current_adcAverage,        \* uint16_t latest average
    motor_enable,              \* output level of MOTOR_ENABLE pin (PE7)
    pcCur,                     \* position of the foreground inside current_handler
    tcSinceRead,               \* history: a transfer-complete ISR ran since the pass read the flag
    TIM_CNT,                   \* TIM2->CNT, the hardware quadrature counter
    TIM_DIR,                   \* TIM2->CR1 DIR bit (1 = counting down)
    TIM_UIF,                   \* TIM2->SR update interrupt flag
    TotalCount,                \* motor_encoder.TotalCount (int32_t)
    LastCount,                 \* motor_encoder.LastCount (int32_t)
    LastHwCount,               \* motor_encoder.LastHwCount (uint16_t)
    Speed,                     \* motor_encoder.Speed (int32_t)
    LastTimeMs,                \* motor_encoder.LastTimeMs (uint32_t)
    CountsPerRevolution,       \* motor_encoder.CountsPerRevolution (uint16_t)
    pcEnc,                     \* position of the foreground inside encoder_update
    encCur,                    \* local current_count of encoder_update
    encDiff,                   \* local count_diff of encoder_update
    encLoaded,                 \* TotalCount as loaded for the += of encoder_update
    shaftPos,                  \* history: true net number of counts turned by the shaft
    shaftAtRead,               \* history: shaftPos when encoder_update last read the counter
    overRange,                 \* history: the shaft turned half a counter lap or more between two reads
    nMoves,                    \* number of shaft movements so far
    rpmRet,                    \* value returned by the last encoder_calculate_speed_rpm
    rpmNow,                    \* current_time_ms argument of the last call
    rpmCalls,                  \* number of encoder_calculate_speed_rpm calls since encoder_init
    btnPin,                    \* GPIOE->IDR bit of each button pin
    btn,                       \* the four Button_HandleTypeDef
    btnOp,                     \* last call of the button driver: function, handle, raw sample or return value
    btnSeq,                    \* flips at every call of the button driver
    scan_timer,                \* button_manager.scan_timer
    motor_running,             \* static uint8_t motor_running of button_handler
    motor_p,                   \* output level of MOTOR_P pin
    motor_m,                   \* output level of MOTOR_M pin
    nPinChanges,               \* number of button pin edges so far
    nScans,                    \* number of samples of the debounce scenario taken so far
    tmr,                       \* a SysTick_Timer_t of the application
    tmrPc,                     \* position of the foreground inside systick_timer_expired
    tmrRet,                    \* value returned by the last systick_timer_expired
    tmrSeq,                    \* flips whenever a systick_timer_expired call returns
    tmrRef,                    \* history: ticks since power-up at the last start or reported expiry
    nTicks,                    \* history: number of SysTick interrupts since power-up
    dlyPc,                     \* position of the foreground inside systick_delay_ms
    dlyStart,                  \* local start_time of systick_delay_ms
    dlyN,                      \* argument delay_ms of systick_delay_ms
    dlyRef,                    \* history: nTicks when systick_delay_ms was entered
    elSince,                   \* argument of the last systick_elapsed_ms call
    elNow,                     \* tick read by the last systick_elapsed_ms call
    elRet,                     \* value returned by the last systick_elapsed_ms call
    keyPin,                    \* level of the four key pins (1 = released)
    encoderCount,              \* counts the encoder has turned since the last Encoder_Get
    OLED_UI_Key,               \* OLED_Key, levels sampled by the last recorded tick (1 = released)
    OLED_UI_LastKey,           \* OLED_Key, levels sampled by the recorded tick before
    keyHold,                   \* statics of OLED_KeyAndEncoderRecord: hold counters and tap-and-hold flags
    KeyEnterFlag,              \* MutexFlag, FLAGSTART while a callback is due or running
    FadeOutFlag,               \* MutexFlag, ENTER_FLAGSTART or BACK_FLAGSTART while a fade runs
    CurrentMenuPage,           \* MenuPage*, the page on display
    menu,                      \* per page: _ActiveMenuID, _Slot, _StartPoint
    OLED_UI_PageStartPoint,    \* TargetPoint of the page start point
    OLED_UI_LineStep,          \* TargetDistance of the line step
    OLED_SustainCounter,       \* SustainFlag and count of the window on display
    CurrentWindow,             \* MenuWindow*, NULL when there is none
    OLED_UI_Window,            \* TargetArea of the window rectangle
    windowData,                \* per window: the int16_t or float (in halves) its box points to
    lastEdit,                  \* history: whether the last recorded tick found a window, and value before and delta of its edit
    radioBox,                  \* the bools the List_BoolRadioBox pointers point to
    FadeOut_Seq,               \* static step of RunFadeOut
    sinceFadeStep,             \* HAL_GetTick() - FadeOut_Seq_StartTick, counted up to FADEOUT_TIME + 1
    fadeMask,                  \* level of the last OLED_UI_FadeOut_Masking of the fade, 0 before the first
    preEnter,                  \* history: page, start point, line step and active index left by the last enter
    encoderEnabled,            \* the encoder counter runs (Encoder_Enable / Encoder_Disable)
    uiPc,                      \* position of the foreground inside OLED_UI_MainLoop
    uiSeq,                     \* flips at every OLED_UI_InterruptHandler
    IncreaseID,                \* history: IncreaseID of the last tick that recorded the keys
    anim,                      \* one animated scalar: the six floats ChangeFloatNum works on (in thousandths) and the page's move style and speed
    button_manager,            \* Button_Manager_t button_manager: buttons, button_count, initialized
    button_array,              \* Button_HandleTypeDef *button_array[]: a handle or NULL per entry
    mgrCall,                   \* arguments of button_manager_init and the value it returned
    dmaStream                  \* DMA2 stream 0 during adc_dma_init: position of the foreground, EN bit, error flags, polls of EN

curVars == <<system_tick_ms, current_timer, current_adcBuffer, dmaHalf, HTIF0, TCIF0,
             current_adcAverageReady, sum, current_adcAverage, motor_enable, pcCur,
             tcSinceRead>>

encVars == <<TIM_CNT, TIM_DIR, TIM_UIF, TotalCount, LastCount, LastHwCount, Speed,
             LastTimeMs, CountsPerRevolution, pcEnc, encCur, encDiff, encLoaded,
             shaftPos, shaftAtRead, overRange, nMoves, rpmRet, rpmNow, rpmCalls>>

btnVars == <<btnPin, btn, btnOp, btnSeq, scan_timer, motor_running, motor_p, motor_m,
             nPinChanges, nScans>>

tmrVars == <<tmr, tmrPc, tmrRet, tmrSeq, tmrRef, nTicks, dlyPc, dlyStart, dlyN, dlyRef,
             elSince, elNow, elRet>>

uiKeyVars == <<OLED_UI_Key, OLED_UI_LastKey, keyHold, IncreaseID>>

uiPageVars == <<CurrentMenuPage, menu, OLED_UI_PageStartPoint, OLED_UI_LineStep, preEnter>>

uiWindowVars == <<OLED_SustainCounter, CurrentWindow, OLED_UI_Window, windowData, lastEdit>>

uiFadeVars == <<FadeOut_Seq, sinceFadeStep, fadeMask>>

uiVars == <<keyPin, encoderCount, uiKeyVars, KeyEnterFlag, FadeOutFlag, uiPageVars, uiWindowVars,
            radioBox, uiFadeVars, encoderEnabled, uiPc, uiSeq>>

mgrVars == <<button_manager, button_array, mgrCall>>

vars == <<curVars, encVars, btnVars, tmrVars, uiVars, anim, dmaStream, mgrVars>>

----------------------------------------------------------------------------
(* Integer widths *)
U8  == 256
U16 == 65536

\* A uint32_t is kept as two 16-bit limbs <<high, low>>, so that arithmetic
\* modulo 2^32 stays inside the integer range of the model checker.
U32Of(n) == <<(n \div U16) % U16, n % U16>>
U32Max == <<U16 - 1, U16 - 1>>
U32Add(a, b) ==
    LET lo == a[2] + b[2]
        hi == a[1] + b[1] + (lo \div U16)
    IN <<hi % U16, lo % U16>>
U32Sub(a, b) ==
    LET lo == a[2] - b[2]
        hi == a[1] - b[1] - (IF lo < 0 THEN 1 ELSE 0)
    IN <<hi % U16, lo % U16>>
U32Geq(a, b) == a[1] > b[1] \/ (a[1] = b[1] /\ a[2] >= b[2])

(* Bounds of the model *)
MaxTick == 2

(* Program constants *)
ADC_BUF_LEN == 200
CURRENT_CRITICAL_THRESHOLD == 3400
ADC_FULL_SCALE == 4096

HalfLen == ADC_BUF_LEN \div 2

\* Conversion results presented by the ADC during one half lap of the ring
AdcCodes == {3300, 3400, 3401, 3500}

----------------------------------------------------------------------------
(* Tick source and software timers *)

systick_elapsed_ms_no_carry(now, start_time_ms) ==
    IF U32Geq(now, start_time_ms)
    THEN U32Sub(now, start_time_ms)
    ELSE U32Add(U32Sub(U32Max, start_time_ms), now)
systick_elapsed_ms(now, start_time_ms) ==
    IF U32Geq(now, start_time_ms)
    THEN U32Sub(now, start_time_ms)
    ELSE U32Add(U32Add(U32Sub(U32Max, start_time_ms), now), U32Of(1))

TimerIsExpiredStrict(timer, now) ==
    /\ timer.enabled = 1
    /\ systick_elapsed_ms(now, timer.start_time) # timer.interval
    /\ U32Geq(systick_elapsed_ms(now, timer.start_time), timer.interval)
TimerIsExpired(timer, now) ==
    /\ timer.enabled = 1
    /\ U32Geq(systick_elapsed_ms(now, timer.start_time), timer.interval)

\* the timer as systick_timer_expired leaves it
systick_timer_expired(timer, now) ==
    IF TimerIsExpired(timer, now)
    THEN IF timer.auto_reload = 1
         THEN [timer EXCEPT !.start_time = now]
         ELSE [timer EXCEPT !.enabled = 0]
    ELSE timer

systick_timer_init_running(interval_ms, auto_reload) ==
    [start_time |-> U32Of(0), interval |-> U32Of(interval_ms), enabled |-> 1,
     auto_reload |-> auto_reload]
systick_timer_init(interval_ms, auto_reload) ==
    [start_time |-> U32Of(0), interval |-> U32Of(interval_ms), enabled |-> 0,
     auto_reload |-> auto_reload]

systick_timer_start(timer, now) ==
    [timer EXCEPT !.start_time = now, !.enabled = 1]

----------------------------------------------------------------------------
(* Sampler: ADC data register, circular DMA, averaging loop *)

\* 12-bit right-aligned conversion result as it appears in ADC1->DR
AdcDRLeftAligned(code) == ((code % ADC_FULL_SCALE) * 16) % U16
AdcDR(code) == code % ADC_FULL_SCALE

\* for (i = lo; i < hi; i++) acc += buf[i];   the uint32_t accumulator cannot
\* wrap: 200 cells of at most 65535 stay below 2^32.  Eight iterations are
\* taken per unfolding to keep the evaluation shallow.
RECURSIVE SumLoop(_, _, _, _)
SumLoop(buf, i, hi, acc) ==
    IF i >= hi THEN acc
    ELSE IF i + 8 <= hi
    THEN SumLoop(buf, i + 8, hi, acc + buf[i] + buf[i + 1] + buf[i + 2] + buf[i + 3]
                                     + buf[i + 4] + buf[i + 5] + buf[i + 6] + buf[i + 7])
    ELSE SumLoop(buf, i + 1, hi, acc + buf[i])

AverageOf(s) == (s \div ADC_BUF_LEN) % U16

OverThresholdInclusive(avg) == avg >= CURRENT_CRITICAL_THRESHOLD
OverThreshold(avg) == avg > CURRENT_CRITICAL_THRESHOLD

\* level of MOTOR_ENABLE after the threshold test of current_handler
CutOffRestoring(avg, level) == IF OverThreshold(avg) THEN 0 ELSE 1
CutOff(avg, level) == IF OverThreshold(avg) THEN 0 ELSE level

----------------------------------------------------------------------------
\* state of the sampler and the protection loop after adc_dma_init, motor_init and scan_init
CurAfterInit ==
    /\ system_tick_ms = U32Of(0)
    /\ current_timer = systick_timer_start(systick_timer_init(1, 1), U32Of(0))
    /\ current_adcBuffer = [i \in 0..(ADC_BUF_LEN - 1) |-> 0]
    /\ dmaHalf = 0
    /\ HTIF0 = 0
    /\ TCIF0 = 0
    /\ current_adcAverageReady = 0
    /\ sum = 0
    /\ current_adcAverage = 0
    /\ motor_enable = 1
    /\ pcCur = "idle"
    /\ tcSinceRead = FALSE

\* SysTick interrupt, modelled while the tick is below the given limit
SysTick(limit) ==
    /\ system_tick_ms[1] = 0 /\ system_tick_ms[2] < limit
    /\ system_tick_ms' = U32Add(system_tick_ms, U32Of(1))
    /\ UNCHANGED <<current_timer, current_adcBuffer, dmaHalf, HTIF0, TCIF0,
                   current_adcAverageReady, sum, current_adcAverage, motor_enable,
                   pcCur, tcSinceRead>>
    /\ UNCHANGED <<encVars, btnVars, tmrVars, uiVars, anim, dmaStream, mgrVars>>
SysTick_Handler == SysTick(MaxTick)

\* The circular stream moves HalfLen conversions into the ring and raises
\* the half-transfer or the transfer-complete flag.
DmaHalfTransfer(code) ==
    /\ current_adcBuffer' =
         [i \in 0..(ADC_BUF_LEN - 1) |->
            IF i \div HalfLen = dmaHalf THEN AdcDR(code) ELSE current_adcBuffer[i]]
    /\ dmaHalf' = 1 - dmaHalf
    /\ IF dmaHalf = 0
       THEN HTIF0' = 1 /\ TCIF0' = TCIF0
       ELSE TCIF0' = 1 /\ HTIF0' = HTIF0
    /\ UNCHANGED <<system_tick_ms, current_timer, current_adcAverageReady, sum,
                   current_adcAverage, motor_enable, pcCur, tcSinceRead>>
    /\ UNCHANGED <<encVars, btnVars, tmrVars, uiVars, anim, dmaStream, mgrVars>>
\* DMA2_Stream0_IRQHandler
DMA2_Stream0_IRQHandler ==
    /\ HTIF0 = 1 \/ TCIF0 = 1
    /\ HTIF0' = 0
    /\ TCIF0' = 0
    /\ current_adcAverageReady' = IF TCIF0 = 1 THEN 1 ELSE current_adcAverageReady
    /\ tcSinceRead' = (tcSinceRead \/ TCIF0 = 1)
    /\ UNCHANGED <<system_tick_ms, current_timer, current_adcBuffer, dmaHalf, sum,
                   current_adcAverage, motor_enable, pcCur>>
    /\ UNCHANGED <<encVars, btnVars, tmrVars, uiVars, anim, dmaStream, mgrVars>>
\* current_handler: timer test and read of the flag
CurEnter ==
    /\ pcCur = "idle"
    /\ TimerIsExpired(current_timer, system_tick_ms)
    /\ current_timer' = systick_timer_expired(current_timer, system_tick_ms)
    /\ pcCur' = IF current_adcAverageReady # 0 THEN "sum1" ELSE "idle"
    /\ tcSinceRead' = FALSE
    /\ UNCHANGED <<system_tick_ms, current_adcBuffer, dmaHalf, HTIF0, TCIF0,
                   current_adcAverageReady, sum, current_adcAverage, motor_enable>>
    /\ UNCHANGED <<encVars, btnVars, tmrVars, uiVars, anim, dmaStream, mgrVars>>
\* current_handler: sum = 0 and the first half of the summing loop
CurSumFirst ==
    /\ pcCur = "sum1"
    /\ sum' = SumLoop(current_adcBuffer, 0, HalfLen, 0)
    /\ pcCur' = "sum2"
    /\ UNCHANGED <<system_tick_ms, current_timer, current_adcBuffer, dmaHalf, HTIF0, TCIF0,
                   current_adcAverageReady, current_adcAverage, motor_enable, tcSinceRead>>
    /\ UNCHANGED <<encVars, btnVars, tmrVars, uiVars, anim, dmaStream, mgrVars>>
\* current_handler: rest of the loop, the average and the threshold test
CurSumRest ==
    /\ pcCur = "sum2"
    /\ LET s == SumLoop(current_adcBuffer, HalfLen, ADC_BUF_LEN, sum)
           avg == AverageOf(s)
       IN /\ sum' = s
          /\ current_adcAverage' = avg
          /\ motor_enable' = CutOff(avg, motor_enable)
    /\ pcCur' = "clr"
    /\ UNCHANGED <<system_tick_ms, current_timer, current_adcBuffer, dmaHalf, HTIF0, TCIF0,
                   current_adcAverageReady, tcSinceRead>>
    /\ UNCHANGED <<encVars, btnVars, tmrVars, uiVars, anim, dmaStream, mgrVars>>
\* current_handler: current_adcAverageReady = 0
CurClear ==
    /\ pcCur = "clr"
    /\ current_adcAverageReady' = 0
    /\ pcCur' = "idle"
    /\ UNCHANGED <<system_tick_ms, current_timer, current_adcBuffer, dmaHalf, HTIF0, TCIF0,
                   sum, current_adcAverage, motor_enable, tcSinceRead>>
    /\ UNCHANGED <<encVars, btnVars, tmrVars, uiVars, anim, dmaStream, mgrVars>>
----------------------------------------------------------------------------
(* Quadrature encoder: position extension and speed *)

ENCODER_MAX_COUNT == 65535
ENCODER_CPR == 1000
INT16_MIN == -32768
RPM_SCALE == 60000

\* TIMx->ARR as encoder_init programs it
TIM_ARR == ENCODER_MAX_COUNT - 1

ToUint16(x) == x % U16
ToInt16(x) == LET m == x % U16 IN IF m >= -INT16_MIN THEN m - U16 ELSE m

\* count_diff of encoder_update after the overflow/underflow adjustment
CountDiff(current_count, last_hw, arr) ==
    LET count_diff == ToInt16(current_count - last_hw)
        max_count == ToUint16(arr + 1)
        half_max == ToInt16(max_count \div 2)
    IN IF count_diff > half_max THEN ToInt16(count_diff - ToInt16(max_count))
       ELSE IF count_diff < -half_max THEN ToInt16(count_diff + ToInt16(max_count))
       ELSE count_diff

\* compensation applied by encoder_timer_irq_handler for the DIR bit
IrqCompensation(dir, arr) == IF dir = 1 THEN -(arr + 1) ELSE arr + 1

\* n * 60000 / c for n >= 0 and 0 < c < 2^16, the product taken in 64 bits by
\* the code; evaluated here through partial quotients so that no intermediate
\* value leaves the integer range of the model checker
MulDivScale(n, c) ==
    LET q1 == n \div c
        r1 == n % c
        x  == r1 * (RPM_SCALE \div 1000)
        q2 == x \div c
        r2 == x % c
    IN q1 * RPM_SCALE + q2 * 1000 + (r2 * 1000) \div c

\* (int32_t)((int64_t)count_diff * 60000L / ((int64_t)cpr * time_diff_ms)),
\* time_diff_ms a uint32_t in limbs; the quotient stays inside int32_t for
\* every value reached, so the final cast is the identity
RpmSpeedMagnitude(count_diff, cpr, dt) ==
    LET n == IF count_diff >= 0 THEN count_diff ELSE -count_diff
        a == MulDivScale(n, cpr)
    IN IF dt[1] >= U16 \div 2 THEN 0 ELSE a \div (dt[1] * U16 + dt[2])
RpmSpeed(count_diff, cpr, dt) ==
    LET n == IF count_diff >= 0 THEN count_diff ELSE -count_diff
        a == MulDivScale(n, cpr)
        q == IF dt[1] >= U16 \div 2 THEN 0 ELSE a \div (dt[1] * U16 + dt[2])
    IN IF count_diff >= 0 THEN q ELSE -q

(* Bounds of the encoder model *)
MaxMoves == 4
MaxCalls == 3

\* net counts turned by the shaft in one movement
ShaftMoves == {-5, -4, 3, 4, 32768}

\* state of the encoder handle and of the timer after encoder_init and encoder_start
EncAfterInitWith(cpr) ==
    /\ TIM_CNT = 0
    /\ TIM_DIR = 0
    /\ TIM_UIF = 0
    /\ TotalCount = 0
    /\ LastCount = 0
    /\ LastHwCount = 0
    /\ Speed = 0
    /\ LastTimeMs = U32Of(0)
    /\ CountsPerRevolution = cpr
    /\ pcEnc = "idle"
    /\ encCur = 0
    /\ encDiff = 0
    /\ encLoaded = 0
    /\ shaftPos = 0
    /\ shaftAtRead = 0
    /\ overRange = FALSE
    /\ nMoves = 0
    /\ rpmRet = 0
    /\ rpmNow = U32Of(0)
    /\ rpmCalls = 0

\* the handle as motor_init configures it
EncAfterInit == EncAfterInitWith(ENCODER_CPR)

\* The shaft turns by d counts: the counter follows modulo ARR + 1, the DIR
\* bit shows the direction and a wrap raises the update flag.
ShaftMove(d) ==
    /\ nMoves < MaxMoves
    /\ nMoves' = nMoves + 1
    /\ TIM_CNT' = (TIM_CNT + d) % (TIM_ARR + 1)
    /\ TIM_DIR' = IF d < 0 THEN 1 ELSE 0
    /\ TIM_UIF' = IF TIM_CNT + d > TIM_ARR \/ TIM_CNT + d < 0 THEN 1 ELSE TIM_UIF
    /\ shaftPos' = shaftPos + d
    /\ overRange' = (overRange \/ (TIM_UIF = 1 /\ (TIM_CNT + d > TIM_ARR \/ TIM_CNT + d < 0)))
    /\ UNCHANGED <<TotalCount, LastCount, LastHwCount, Speed, LastTimeMs,
                   CountsPerRevolution, pcEnc, encCur, encDiff, encLoaded, shaftAtRead,
                   rpmRet, rpmNow, rpmCalls>>
    /\ UNCHANGED <<curVars, btnVars, tmrVars, uiVars, anim, dmaStream, mgrVars>>
\* TIM2_IRQHandler -> encoder_timer_irq_handler
TIM2_IRQHandler ==
    /\ TIM_UIF = 1
    /\ TIM_UIF' = 0
    /\ TotalCount' = TotalCount + IrqCompensation(TIM_DIR, TIM_ARR)
    /\ UNCHANGED <<TIM_CNT, TIM_DIR, LastCount, LastHwCount, Speed, LastTimeMs,
                   CountsPerRevolution, pcEnc, encCur, encDiff, encLoaded, shaftPos,
                   shaftAtRead, overRange, nMoves, rpmRet, rpmNow, rpmCalls>>
    /\ UNCHANGED <<curVars, btnVars, tmrVars, uiVars, anim, dmaStream, mgrVars>>
\* encoder_update: read of the counter, count_diff, and the load of TotalCount
EncUpdateRead ==
    /\ pcEnc = "idle"
    /\ encCur' = ToUint16(TIM_CNT)
    /\ encDiff' = CountDiff(ToUint16(TIM_CNT), LastHwCount, TIM_ARR)
    /\ encLoaded' = TotalCount
    /\ pcEnc' = "write"
    /\ shaftAtRead' = shaftPos
    /\ overRange' = (overRange \/ shaftPos - shaftAtRead >= 32767
                               \/ shaftAtRead - shaftPos >= 32767)
    /\ UNCHANGED <<TIM_CNT, TIM_DIR, TIM_UIF, TotalCount, LastCount, LastHwCount, Speed,
                   LastTimeMs, CountsPerRevolution, shaftPos, nMoves, rpmRet, rpmNow,
                   rpmCalls>>
    /\ UNCHANGED <<curVars, btnVars, tmrVars, uiVars, anim, dmaStream, mgrVars>>
\* encoder_update: the store of TotalCount and of LastHwCount
EncUpdateWrite ==
    /\ pcEnc = "write"
    /\ TotalCount' = encLoaded + encDiff
    /\ LastHwCount' = encCur
    /\ pcEnc' = "idle"
    /\ UNCHANGED <<TIM_CNT, TIM_DIR, TIM_UIF, LastCount, Speed, LastTimeMs,
                   CountsPerRevolution, encCur, encDiff, encLoaded, shaftPos, shaftAtRead,
                   overRange, nMoves, rpmRet, rpmNow, rpmCalls>>
    /\ UNCHANGED <<curVars, btnVars, tmrVars, uiVars, anim, dmaStream, mgrVars>>
\* timestamps passed to encoder_calculate_speed_rpm; the last one is 2^32 - 100
NowSamples == {U32Of(0), U32Of(100), U32Of(200), <<U16 - 1, U16 - 100>>}

\* counts per revolution a handle may be initialised with
CprSamples == {0, 7, ENCODER_CPR}

\* shaft movements between speed calls
RpmMoves == {-499, -1, 500}

\* encoder_calculate_speed_rpm(handle, now), called with no interrupt pending
RpmCall(now) ==
    /\ pcEnc = "idle"
    /\ rpmCalls < MaxCalls
    /\ rpmCalls' = rpmCalls + 1
    /\ rpmNow' = now
    /\ IF CountsPerRevolution = 0
       THEN /\ rpmRet' = 0
            /\ UNCHANGED <<TotalCount, LastCount, LastHwCount, Speed, LastTimeMs,
                           shaftAtRead, overRange>>
       ELSE LET current_count == ToUint16(TIM_CNT)
                total == TotalCount + CountDiff(current_count, LastHwCount, TIM_ARR)
                time_diff_ms == U32Sub(now, LastTimeMs)
            IN /\ TotalCount' = total
               /\ LastHwCount' = current_count
               /\ shaftAtRead' = shaftPos
               /\ overRange' = (overRange \/ shaftPos - shaftAtRead >= 32767
                                          \/ shaftAtRead - shaftPos >= 32767)
               /\ IF LastTimeMs = U32Of(0)
                  THEN /\ LastTimeMs' = now
                       /\ LastCount' = total
                       /\ rpmRet' = 0
                       /\ UNCHANGED Speed
                  ELSE IF time_diff_ms = U32Of(0)
                  THEN /\ rpmRet' = Speed
                       /\ UNCHANGED <<Speed, LastCount, LastTimeMs>>
                  ELSE /\ Speed' = RpmSpeed(total - LastCount, CountsPerRevolution,
                                            time_diff_ms)
                       /\ rpmRet' = Speed'
                       /\ LastCount' = total
                       /\ LastTimeMs' = now
    /\ UNCHANGED <<TIM_CNT, TIM_DIR, TIM_UIF, CountsPerRevolution, pcEnc, encCur, encDiff,
                   encLoaded, shaftPos, nMoves>>
    /\ UNCHANGED <<curVars, btnVars, tmrVars, uiVars, anim, dmaStream, mgrVars>>
\* a movement that keeps the counter inside one lap (no update event)
ShaftMoveInLap(d) ==
    /\ TIM_CNT + d >= 0
    /\ TIM_CNT + d <= TIM_ARR
    /\ ShaftMove(d)

----------------------------------------------------------------------------
(* Buttons: shift-register debouncer and press latch *)

BUTTON_ACTIVE_LOW == 0
BUTTON_ACTIVE_HIGH == 1
BUTTON_SCAN_INTERVAL_MS == 5
BUTTON_DEBOUNCE_PATTERN == 15
NIBBLE == BUTTON_DEBOUNCE_PATTERN + 1

BUTTON_MAX_BUTTONS == 8

\* the null pointer
NULL == "NULL"

\* the four Button_HandleTypeDef of event.c
Buttons == {"up", "down", "enter", "return"}

\* button_array[] as event.c defines it
ButtonArrayOfEvent == <<"up", "down", "enter", "return">>

\* button_manager as the startup code zeroes it
ManagerZeroed == [buttons |-> NULL, button_count |-> 0, initialized |-> 0]

\* the handle as button_init leaves it
button_init_pressed(active_level) ==
    [active_level |-> active_level, current_state |-> 1, last_state |-> 0,
     press_event |-> 0, debounce_shift_reg |-> 0, initialized |-> 1]
button_init(active_level) ==
    [active_level |-> active_level, current_state |-> 0, last_state |-> 0,
     press_event |-> 0, debounce_shift_reg |-> 0, initialized |-> 1]

\* button_read_raw: 1 when the pin is at the active level
button_read_raw(handle, pin_state) ==
    IF handle.active_level = BUTTON_ACTIVE_HIGH THEN pin_state ELSE 1 - pin_state

\* button_debounce_shift_register
button_debounce_auto_repeat(handle, raw_reading) ==
    LET reg == (handle.debounce_shift_reg * 2 + raw_reading) % U8
        h == [handle EXCEPT !.debounce_shift_reg = reg]
    IN IF reg % NIBBLE = BUTTON_DEBOUNCE_PATTERN
       THEN [h EXCEPT !.last_state = h.current_state, !.current_state = 1, !.press_event = 1]
       ELSE IF reg % NIBBLE = 0
       THEN IF h.current_state # 0
            THEN [h EXCEPT !.last_state = h.current_state, !.current_state = 0]
            ELSE h
       ELSE h
button_debounce_shift_register(handle, raw_reading) ==
    LET reg == (handle.debounce_shift_reg * 2 + raw_reading) % U8
        h == [handle EXCEPT !.debounce_shift_reg = reg]
    IN IF reg % NIBBLE = BUTTON_DEBOUNCE_PATTERN
       THEN IF h.current_state = 0
            THEN [h EXCEPT !.last_state = h.current_state, !.current_state = 1,
                           !.press_event = 1]
            ELSE h
       ELSE IF reg % NIBBLE = 0
       THEN IF h.current_state # 0
            THEN [h EXCEPT !.last_state = h.current_state, !.current_state = 0]
            ELSE h
       ELSE h

\* button_check_optimized
button_check_three_samples(handle, pin_state) ==
    LET raw == button_read_raw(handle, pin_state)
        reg == (handle.debounce_shift_reg * 2 + raw) % U8
        h == [handle EXCEPT !.debounce_shift_reg = reg]
    IN IF handle.initialized = 0 THEN handle
       ELSE IF reg % (NIBBLE \div 2) = BUTTON_DEBOUNCE_PATTERN \div 2 /\ h.current_state = 0
       THEN [h EXCEPT !.last_state = 0, !.current_state = 1, !.press_event = 1]
       ELSE IF reg % (NIBBLE \div 2) = 0 /\ h.current_state # 0
       THEN [h EXCEPT !.last_state = 1, !.current_state = 0]
       ELSE h
button_check_optimized(handle, pin_state) ==
    IF handle.initialized = 0 THEN handle
    ELSE button_debounce_shift_register(handle, button_read_raw(handle, pin_state))

\* button_is_pressed
button_is_pressed(handle) ==
    IF handle.initialized = 0 THEN 0 ELSE handle.current_state

\* button_pressed: the value returned and the handle afterwards
button_pressed_sticky(handle) ==
    IF handle.initialized = 0 THEN [ret |-> 0, handle |-> handle]
    ELSE IF handle.press_event # 0 THEN [ret |-> 1, handle |-> handle]
    ELSE [ret |-> 0, handle |-> handle]
button_pressed(handle) ==
    IF handle.initialized = 0 THEN [ret |-> 0, handle |-> handle]
    ELSE IF handle.press_event # 0
    THEN [ret |-> 1, handle |-> [handle EXCEPT !.press_event = 0]]
    ELSE [ret |-> 0, handle |-> handle]

\* button_manager_init(manager, buttons, count): the value returned and the
\* manager afterwards; pointee is the manager behind a non-null pointer, array
\* the entries behind a non-null buttons, handles the Button_HandleTypeDef
button_manager_init_unbounded(manager, pointee, buttons, array, count, handles) ==
    IF manager = NULL \/ buttons = NULL \/ count = 0
    THEN [ret |-> 1, manager |-> pointee]
    ELSE IF \E i \in 1..count : array[i] = NULL \/ handles[array[i]].initialized = 0
    THEN [ret |-> 1, manager |-> pointee]
    ELSE [ret |-> 0,
          manager |-> [pointee EXCEPT !.buttons = buttons, !.button_count = count,
                                      !.initialized = 1]]
button_manager_init(manager, pointee, buttons, array, count, handles) ==
    IF manager = NULL \/ buttons = NULL \/ count = 0 \/ count > BUTTON_MAX_BUTTONS
    THEN [ret |-> 1, manager |-> pointee]
    ELSE IF \E i \in 1..count : array[i] = NULL \/ handles[array[i]].initialized = 0
    THEN [ret |-> 1, manager |-> pointee]
    ELSE [ret |-> 0,
          manager |-> [pointee EXCEPT !.buttons = buttons, !.button_count = count,
                                      !.initialized = 1]]

\* the scan loop of button_handler from entry i on: every entry of the
\* manager's array that holds an initialised handle is read and debounced
RECURSIVE ScanLoop(_, _, _, _, _)
ScanLoop(i, count, array, handles, pins) ==
    IF i > count THEN handles
    ELSE LET handle == array[i]
             sampled == IF handle # NULL /\ handles[handle].initialized # 0
                        THEN [handles EXCEPT ![handle] =
                                  button_debounce_shift_register(handles[handle],
                                      button_read_raw(handles[handle], pins[handle]))]
                        ELSE handles
         IN ScanLoop(i + 1, count, array, sampled, pins)

\* the manager and its array after button_system_init
ManagerAfterInit ==
    /\ button_array = ButtonArrayOfEvent
    /\ button_manager = [buttons |-> "button_array", button_count |-> 4, initialized |-> 1]
    /\ mgrCall = [manager |-> "button_manager", buttons |-> "button_array", count |-> 4,
                  ret |-> 0, returned |-> TRUE]

\* buttons, scan timer and motor pins after motor_init, button_system_init and
\* scan_init, every button wired with the given active level; the buttons in
\* held are down at power-up, the others released
BtnAfterInitWith(active_level, held) ==
    /\ btn = [b \in Buttons |-> button_init(active_level)]
    /\ btnPin = [b \in Buttons |-> IF b \in held THEN active_level ELSE 1 - active_level]
    /\ btnOp = [fn |-> "button_init", b |-> "return", val |-> 0]
    /\ btnSeq = 0
    /\ scan_timer = systick_timer_start(systick_timer_init(BUTTON_SCAN_INTERVAL_MS, 1), U32Of(0))
    /\ motor_running = 1
    /\ motor_p = 1
    /\ motor_m = 0
    /\ nPinChanges = 0
    /\ nScans = 0
    /\ ManagerAfterInit

\* the wiring of button_system_init: active low with pull-up
BtnAfterInit == BtnAfterInitWith(BUTTON_ACTIVE_LOW, {})

\* the level of one button pin changes (press, release or contact bounce)
PinFlip(b) ==
    /\ btnPin' = [btnPin EXCEPT ![b] = 1 - btnPin[b]]
    /\ UNCHANGED <<btn, btnOp, btnSeq, scan_timer, motor_running, motor_p, motor_m, nScans>>
    /\ UNCHANGED <<curVars, encVars, tmrVars, uiVars, anim, dmaStream, mgrVars>>
PinChange(b) == PinFlip(b) /\ UNCHANGED nPinChanges

\* one scan of one button: button_check_optimized(&button)
ButtonCheck(b) ==
    /\ btn' = [btn EXCEPT ![b] = button_check_optimized(btn[b], btnPin[b])]
    /\ btnOp' = [fn |-> "button_check_optimized", b |-> b,
                 val |-> button_read_raw(btn[b], btnPin[b])]
    /\ btnSeq' = 1 - btnSeq
    /\ UNCHANGED <<btnPin, scan_timer, motor_running, motor_p, motor_m, nPinChanges, nScans>>
    /\ UNCHANGED <<curVars, encVars, tmrVars, uiVars, anim, dmaStream, mgrVars>>
\* a call of button_is_pressed(&button)
ButtonIsPressed(b) ==
    /\ btnOp' = [fn |-> "button_is_pressed", b |-> b, val |-> button_is_pressed(btn[b])]
    /\ btnSeq' = 1 - btnSeq
    /\ UNCHANGED <<btnPin, btn, scan_timer, motor_running, motor_p, motor_m, nPinChanges, nScans>>
    /\ UNCHANGED <<curVars, encVars, tmrVars, uiVars, anim, dmaStream, mgrVars>>
\* a call of button_pressed(&button)
ButtonPressed(b) ==
    /\ btn' = [btn EXCEPT ![b] = button_pressed(btn[b]).handle]
    /\ btnOp' = [fn |-> "button_pressed", b |-> b, val |-> button_pressed(btn[b]).ret]
    /\ btnSeq' = 1 - btnSeq
    /\ UNCHANGED <<btnPin, scan_timer, motor_running, motor_p, motor_m, nPinChanges, nScans>>
    /\ UNCHANGED <<curVars, encVars, tmrVars, uiVars, anim, dmaStream, mgrVars>>
\* buttons whose pin moves in the driver specification
BtnInputs == {"enter"}

\* raw samples of the debounce scenario, one per 5 ms scan
RawSequence == <<0, 1, 0, 1, 1, 1, 1, 0, 0, 0, 0>>

\* the button under scan in the scenario
ScenarioButton == "enter"

\* the pin takes the level of the next raw sample and the scan, one
\* button_check_optimized(&button), samples it
ScenarioScan ==
    /\ nScans < Len(RawSequence)
    /\ LET b == ScenarioButton
           raw == RawSequence[nScans + 1]
           pin_state == IF btn[b].active_level = BUTTON_ACTIVE_HIGH THEN raw ELSE 1 - raw
       IN /\ btnPin' = [btnPin EXCEPT ![b] = pin_state]
          /\ btn' = [btn EXCEPT ![b] = button_check_optimized(btn[b], pin_state)]
          /\ btnOp' = [fn |-> "button_check_optimized", b |-> b,
                       val |-> button_read_raw(btn[b], pin_state)]
    /\ btnSeq' = 1 - btnSeq
    /\ nScans' = nScans + 1
    /\ UNCHANGED <<scan_timer, motor_running, motor_p, motor_m, nPinChanges>>
    /\ UNCHANGED <<curVars, encVars, tmrVars, uiVars, anim, dmaStream, mgrVars>>
----------------------------------------------------------------------------
(* Motor control from the buttons (main loop of scan_check) *)

(* Bounds of the motor model *)
MaxMotorTick == 60
MaxDmaTick == 2
MaxPinChanges == 3

\* conversion results presented while the motor model samples
MotorCodes == {3300, 3500}

\* buttons the user presses and releases in the motor model
MotorInputs == {"enter"}

\* buttons the user may hold down from power-up on
MotorHeldAtPowerUp == {"return"}

\* SysTick interrupt in a main loop that keeps up: every expired software
\* timer and every pending DMA interrupt has been served before the next tick
SysTickMainLoop ==
    /\ ~TimerIsExpired(current_timer, system_tick_ms)
    /\ ~TimerIsExpired(scan_timer, system_tick_ms)
    /\ HTIF0 = 0 /\ TCIF0 = 0
    /\ SysTick(MaxMotorTick)

\* the ADC converts during the first milliseconds only
DmaWhileSampling(code) ==
    /\ system_tick_ms[1] = 0 /\ system_tick_ms[2] < MaxDmaTick
    /\ DmaHalfTransfer(code)

\* a press or release edge on a button pin, at most MaxPinChanges of them
PinChangeCounted(b) ==
    /\ nPinChanges < MaxPinChanges
    /\ nPinChanges' = nPinChanges + 1
    /\ PinFlip(b)

\* current_handler, run without interruption: the pass is taken when its timer
\* has expired and averages the ring when the batch is ready
current_handler ==
    /\ pcCur = "idle"
    /\ TimerIsExpired(current_timer, system_tick_ms)
    /\ current_timer' = systick_timer_expired(current_timer, system_tick_ms)
    /\ IF current_adcAverageReady # 0
       THEN LET s == SumLoop(current_adcBuffer, 0, ADC_BUF_LEN, 0)
                avg == AverageOf(s)
            IN /\ sum' = s
               /\ current_adcAverage' = avg
               /\ motor_enable' = CutOff(avg, motor_enable)
               /\ current_adcAverageReady' = 0
       ELSE UNCHANGED <<sum, current_adcAverage, motor_enable, current_adcAverageReady>>
    /\ tcSinceRead' = FALSE
    /\ UNCHANGED <<system_tick_ms, current_adcBuffer, dmaHalf, HTIF0, TCIF0, pcCur>>
    /\ UNCHANGED <<encVars, btnVars, tmrVars, uiVars, anim, dmaStream, mgrVars>>
\* button_handler: the scan of all buttons when the shared timer has expired,
\* then the four press events with the ENTER and RETURN motor actions
button_handler ==
    /\ pcCur = "idle"
    /\ LET scanned == IF TimerIsExpired(scan_timer, system_tick_ms)
                      THEN ScanLoop(1, button_manager.button_count, button_array, btn, btnPin)
                      ELSE btn
           enter == button_pressed(scanned["enter"]).ret
           return == button_pressed(scanned["return"]).ret
           running == IF enter = 1 THEN (IF motor_running = 0 THEN 1 ELSE 0)
                      ELSE motor_running
           enable == IF enter = 1 THEN running ELSE motor_enable
       IN /\ scan_timer' = systick_timer_expired(scan_timer, system_tick_ms)
          /\ btn' = [b \in DOMAIN btn |-> IF b \in Buttons THEN button_pressed(scanned[b]).handle
                                                          ELSE scanned[b]]
          /\ btnOp' = [fn |-> "button_pressed", b |-> "return", val |-> return]
          /\ motor_running' = running
          /\ motor_enable' = IF return = 1 THEN 0 ELSE enable
          /\ motor_p' = IF return = 1 THEN 0 ELSE motor_p
          /\ motor_m' = IF return = 1 THEN 0 ELSE motor_m
    /\ UNCHANGED <<btnPin, btnSeq, nPinChanges, nScans>>
    /\ UNCHANGED <<system_tick_ms, current_timer, current_adcBuffer, dmaHalf, HTIF0, TCIF0,
                   current_adcAverageReady, sum, current_adcAverage, pcCur, tcSinceRead>>
    /\ UNCHANGED <<encVars, tmrVars, uiVars, anim, dmaStream, mgrVars>>
----------------------------------------------------------------------------
(* Software timers, systick_elapsed_ms and systick_delay_ms as an application uses them *)

(* Bounds of the timer model *)
MaxTimerTicks == 6
MaxDelay == 3

\* values of system_tick_ms at which the application starts using the timer;
\* the second is 2^32 - 2, two ticks before the counter wraps
TickSamples == {U32Of(0), <<U16 - 1, U16 - 2>>}

\* interval_ms arguments of systick_timer_init
TimerIntervals == {0, 1, 3}

\* start_time_ms arguments of systick_elapsed_ms: 0, 1, 2^16, 2^32 - 3, 2^32 - 1
SinceSamples == {U32Of(0), U32Of(1), <<1, 0>>, <<U16 - 1, U16 - 3>>, U32Max}

\* the timer, the delay and the tick as the application finds them
TmrAfterInit(interval_ms, auto_reload) ==
    /\ tmr = systick_timer_init(interval_ms, auto_reload)
    /\ tmrPc = "idle"
    /\ tmrRet = 0
    /\ tmrSeq = 0
    /\ tmrRef = -1
    /\ nTicks = 0
    /\ dlyPc = "idle"
    /\ dlyStart = U32Of(0)
    /\ dlyN = 0
    /\ dlyRef = 0
    /\ elSince = U32Of(0)
    /\ elNow = U32Of(0)
    /\ elRet = U32Of(0)

\* the timer variables where no timer of this kind is in use
TmrIdle == TmrAfterInit(0, 0)

\* SysTick interrupt: system_tick_ms++ modulo 2^32
TimerTick ==
    /\ nTicks < MaxTimerTicks
    /\ nTicks' = nTicks + 1
    /\ system_tick_ms' = U32Add(system_tick_ms, U32Of(1))
    /\ UNCHANGED <<current_timer, current_adcBuffer, dmaHalf, HTIF0, TCIF0,
                   current_adcAverageReady, sum, current_adcAverage, motor_enable,
                   pcCur, tcSinceRead>>
    /\ UNCHANGED <<tmr, tmrPc, tmrRet, tmrSeq, tmrRef, dlyPc, dlyStart, dlyN, dlyRef,
                   elSince, elNow, elRet>>
    /\ UNCHANGED <<encVars, btnVars, uiVars, anim, dmaStream, mgrVars>>
\* systick_timer_start(&timer)
TimerStart ==
    /\ tmrPc = "idle"
    /\ tmr' = systick_timer_start(tmr, system_tick_ms)
    /\ tmrRef' = nTicks
    /\ UNCHANGED <<tmrPc, tmrRet, tmrSeq, nTicks, dlyPc, dlyStart, dlyN, dlyRef,
                   elSince, elNow, elRet>>
    /\ UNCHANGED <<curVars, encVars, btnVars, uiVars, anim, dmaStream, mgrVars>>
\* systick_timer_expired(&timer) up to its return, or, for an auto-reload
\* timer that has expired, up to the second read of system_tick_ms
TimerPoll ==
    /\ tmrPc = "idle"
    /\ IF TimerIsExpired(tmr, system_tick_ms)
       THEN IF tmr.auto_reload # 0
            THEN /\ tmrPc' = "reload"
                 /\ UNCHANGED <<tmr, tmrRet, tmrSeq, tmrRef>>
            ELSE /\ tmr' = systick_timer_expired(tmr, system_tick_ms)
                 /\ tmrRet' = 1
                 /\ tmrSeq' = 1 - tmrSeq
                 /\ tmrRef' = nTicks
                 /\ UNCHANGED tmrPc
       ELSE /\ tmrRet' = 0
            /\ tmrSeq' = 1 - tmrSeq
            /\ UNCHANGED <<tmr, tmrPc, tmrRef>>
    /\ UNCHANGED <<nTicks, dlyPc, dlyStart, dlyN, dlyRef, elSince, elNow, elRet>>
    /\ UNCHANGED <<curVars, encVars, btnVars, uiVars, anim, dmaStream, mgrVars>>
\* systick_timer_expired, auto-reload branch: timer->start_time = systick_get_ms(); return 1
TimerReload ==
    /\ tmrPc = "reload"
    /\ tmr' = [tmr EXCEPT !.start_time = system_tick_ms]
    /\ tmrRet' = 1
    /\ tmrSeq' = 1 - tmrSeq
    /\ tmrRef' = nTicks
    /\ tmrPc' = "idle"
    /\ UNCHANGED <<nTicks, dlyPc, dlyStart, dlyN, dlyRef, elSince, elNow, elRet>>
    /\ UNCHANGED <<curVars, encVars, btnVars, uiVars, anim, dmaStream, mgrVars>>
\* systick_elapsed_ms(start_time_ms)
ElapsedCall(start_time_ms) ==
    /\ elSince' = start_time_ms
    /\ elNow' = system_tick_ms
    /\ elRet' = systick_elapsed_ms(system_tick_ms, start_time_ms)
    /\ UNCHANGED <<tmr, tmrPc, tmrRet, tmrSeq, tmrRef, nTicks, dlyPc, dlyStart, dlyN, dlyRef>>
    /\ UNCHANGED <<curVars, encVars, btnVars, uiVars, anim, dmaStream, mgrVars>>
\* systick_delay_ms(delay_ms): entry, start_time = systick_get_ms(); entered
\* only while the modelled tick source has delay_ms ticks left to deliver
DelayStart(delay_ms) ==
    /\ dlyPc = "idle"
    /\ nTicks + delay_ms <= MaxTimerTicks
    /\ dlyPc' = "wait"
    /\ dlyStart' = system_tick_ms
    /\ dlyN' = delay_ms
    /\ dlyRef' = nTicks
    /\ UNCHANGED <<tmr, tmrPc, tmrRet, tmrSeq, tmrRef, nTicks, elSince, elNow, elRet>>
    /\ UNCHANGED <<curVars, encVars, btnVars, uiVars, anim, dmaStream, mgrVars>>
\* systick_delay_ms: one test of the polling loop; the call returns when
\* systick_elapsed_ms(start_time) < delay_ms is false
DelayPoll ==
    /\ dlyPc = "wait"
    /\ dlyPc' = IF U32Geq(systick_elapsed_ms(system_tick_ms, dlyStart), U32Of(dlyN))
                THEN "idle" ELSE "wait"
    /\ UNCHANGED <<tmr, tmrPc, tmrRet, tmrSeq, tmrRef, nTicks, dlyStart, dlyN, dlyRef,
                   elSince, elNow, elRet>>
    /\ UNCHANGED <<curVars, encVars, btnVars, uiVars, anim, dmaStream, mgrVars>>
----------------------------------------------------------------------------
(* Menu engine (OLED_UI): key and encoder record, navigation, Enter and     *)
(* Back, the callback and fade flags, the periodic interrupt against the    *)
(* main loop                                                                *)

(* Bounds of the menu model *)
MaxEncoderStep == 1

(* Enumerations and configuration macros of OLED_UI.h *)
FLAGEND == "FLAGEND"
FLAGSTART == "FLAGSTART"
ENTER_FLAGSTART == "ENTER_FLAGSTART"
BACK_FLAGSTART == "BACK_FLAGSTART"
MENU_TYPE_LIST == "MENU_TYPE_LIST"
MENU_TYPE_TILES == "MENU_TYPE_TILES"
WINDOW_DATA_STYLE_NONE == "WINDOW_DATA_STYLE_NONE"
WINDOW_DATA_STYLE_INT == "WINDOW_DATA_STYLE_INT"
WINDOW_DATA_STYLE_FLOAT == "WINDOW_DATA_STYLE_FLOAT"
\* (float)PRESS_TIME * 50 and CONTINUE_PRESS_TIME * 50, in ticks of the periodic interrupt
PRESS_TICKS == 2
CONTINUE_PRESS_TICKS == 2
PRESS_MOVE_SPEED == 2
CONTINUE_PRESS_MOVE_SPEED == 1
TILES_STARTPOINT_Y == 6
FADEOUT_LAST_SEQ == 6
\* milliseconds a fade level lasts
FADEOUT_TIME == 1
OLED_WIDTH == 128
OLED_HEIGHT == 64

Keys == {"Up", "Down", "Enter", "Back"}

\* OLED_Key with every key released
KeysReleased == [k \in Keys |-> 1]

(* The menu of the application: a LIST root of five items on three slots,   *)
(* a LIST child shorter than its window and a TILES child. An item carries   *)
(* a callback, a sub-page and a radio-bool pointer, each possibly NULL.      *)
NoItem == [General_callback |-> NULL, General_SubMenuPage |-> NULL, List_BoolRadioBox |-> NULL]

MenuPages ==
    [MainMenuPage |->
        [General_MenuType |-> MENU_TYPE_LIST, General_ParentMenuPage |-> NULL,
         General_FontSize |-> 16, General_LineSpace |-> 5,
         List_MenuArea |-> [X |-> 0, Y |-> 0, Width |-> 128, Height |-> 64],
         List_StartPointX |-> 2, List_StartPointY |-> 2,
         Tiles_ScreenWidth |-> 128, Tiles_TileWidth |-> 32,
         General_MenuItems |->
            << [NoItem EXCEPT !.General_SubMenuPage = "SettingsPage"],
               [NoItem EXCEPT !.General_callback = "ShowWindow"],
               [NoItem EXCEPT !.List_BoolRadioBox = "Backlight"],
               [NoItem EXCEPT !.General_callback = "Noop", !.General_SubMenuPage = "SettingsPage"],
               [NoItem EXCEPT !.General_SubMenuPage = "TilesPage"] >>],
     SettingsPage |->
        [General_MenuType |-> MENU_TYPE_LIST, General_ParentMenuPage |-> "MainMenuPage",
         General_FontSize |-> 16, General_LineSpace |-> 5,
         List_MenuArea |-> [X |-> 0, Y |-> 0, Width |-> 128, Height |-> 64],
         List_StartPointX |-> 2, List_StartPointY |-> 2,
         Tiles_ScreenWidth |-> 128, Tiles_TileWidth |-> 32,
         General_MenuItems |->
            << [NoItem EXCEPT !.General_callback = "Noop", !.List_BoolRadioBox = "Beep"],
               NoItem >>],
     TilesPage |->
        [General_MenuType |-> MENU_TYPE_TILES, General_ParentMenuPage |-> "MainMenuPage",
         General_FontSize |-> 16, General_LineSpace |-> 6,
         List_MenuArea |-> [X |-> 0, Y |-> 0, Width |-> 128, Height |-> 64],
         List_StartPointX |-> 2, List_StartPointY |-> 2,
         Tiles_ScreenWidth |-> 128, Tiles_TileWidth |-> 32,
         General_MenuItems |->
            << [NoItem EXCEPT !.General_callback = "Noop"],
               NoItem,
               NoItem >>]]

Pages == DOMAIN MenuPages

\* the bools the radio items point to
RadioBoxes == {"Backlight", "Beep"}

\* a float of the window configuration is held in halves, which is exact for
\* the values configured here
FloatScale == 2

(* The windows of the application. Prob_DataStep, Prob_MinData and           *)
(* Prob_MaxData are floats (in halves); Prob_Data_Int and Prob_Data_Float    *)
(* tell which pointer is not NULL; ContinueTicks is                          *)
(* (int16_t)(General_ContinueTime * 50).                                     *)
MenuWindows ==
    [ValueWindow |->     \* an int box stepped by 1 inside [0, 2]
        [General_Width |-> 80, General_Height |-> 28, ContinueTicks |-> 2,
         Prob_Data_Int |-> TRUE, Prob_Data_Float |-> FALSE,
         Prob_DataStep |-> 2, Prob_MinData |-> 0, Prob_MaxData |-> 4],
     FineWindow |->      \* an int box stepped by 0.5 inside [0, 2]
        [General_Width |-> 80, General_Height |-> 28, ContinueTicks |-> 2,
         Prob_Data_Int |-> TRUE, Prob_Data_Float |-> FALSE,
         Prob_DataStep |-> 1, Prob_MinData |-> 0, Prob_MaxData |-> 4],
     RatioWindow |->     \* a float box stepped by 0.5 inside [0, 1]
        [General_Width |-> 80, General_Height |-> 28, ContinueTicks |-> 2,
         Prob_Data_Int |-> FALSE, Prob_Data_Float |-> TRUE,
         Prob_DataStep |-> 1, Prob_MinData |-> 0, Prob_MaxData |-> 2],
     NoticeWindow |->    \* a window without data
        [General_Width |-> 80, General_Height |-> 28, ContinueTicks |-> 2,
         Prob_Data_Int |-> FALSE, Prob_Data_Float |-> FALSE,
         Prob_DataStep |-> 0, Prob_MinData |-> 0, Prob_MaxData |-> 0]]

Windows == DOMAIN MenuWindows

GetMenuItemNum(page) == Len(MenuPages[page].General_MenuItems)

\* the item under the cursor; a C array is indexed from 0
ActiveItem(page, m) == MenuPages[page].General_MenuItems[m._ActiveMenuID + 1]

GetEnterFlag == KeyEnterFlag = FLAGEND

GetFadeoutFlag == FadeOutFlag = FLAGEND

RowPitch(page) == OLED_UI_LineStep.TargetDistance + MenuPages[page].General_FontSize

TilePitch(page) == OLED_UI_LineStep.TargetDistance + MenuPages[page].Tiles_TileWidth

MenuItemsMoveUp(pt, page) == [pt EXCEPT !.Y = @ - RowPitch(page)]

MenuItemsMoveDown(pt, page) == [pt EXCEPT !.Y = @ + RowPitch(page)]

MenuItemsMoveLeft(pt, page) == [pt EXCEPT !.X = @ - TilePitch(page)]

MenuItemsMoveRight(pt, page) == [pt EXCEPT !.X = @ + TilePitch(page)]

GetCurrentMenuPageMaxSlotNum(page) ==
    (MenuPages[page].List_MenuArea.Height - MenuPages[page].List_StartPointY
        + OLED_UI_LineStep.TargetDistance - 1) \div RowPitch(page)

\* TargetPoint, TargetDistance, _ActiveMenuID and _Slot as CurrentMenuPageInit leaves them
PageInitPoint(page) ==
    IF MenuPages[page].General_MenuType = MENU_TYPE_LIST
    THEN [X |-> MenuPages[page].List_MenuArea.X + MenuPages[page].List_StartPointX,
          Y |-> MenuPages[page].List_MenuArea.Y + MenuPages[page].List_StartPointY]
    ELSE [X |-> (MenuPages[page].Tiles_ScreenWidth \div 2) - (MenuPages[page].Tiles_TileWidth \div 2),
          Y |-> TILES_STARTPOINT_Y]

CurrentMenuPageInit(page, m) ==
    IF MenuPages[page].General_MenuType = MENU_TYPE_LIST
    THEN [m EXCEPT !._ActiveMenuID = 0, !._Slot = 0]
    ELSE [m EXCEPT !._ActiveMenuID = 0]

\* TargetPoint and TargetDistance as CurrentMenuPageBackUp leaves them for the page returned to
CurrentMenuPageBackUp_reinit(page) ==
    [pt |-> PageInitPoint(page), step |-> [TargetDistance |-> MenuPages[page].General_LineSpace]]

CurrentMenuPageBackUp(page) ==
    [pt |-> menu[page]._StartPoint, step |-> [TargetDistance |-> MenuPages[page].General_LineSpace]]

\* one hold counter pair of OLED_KeyAndEncoderRecord; the press counter stops
\* counting once it is past both thresholds
HoldStep_one_tier(last, cur, h) ==
    IF last = 0 /\ cur = 0
    THEN LET c == IF h.PressCounter >= PRESS_TICKS + CONTINUE_PRESS_TICKS
                  THEN h.PressCounter ELSE h.PressCounter + 1
         IN  IF c >= PRESS_TICKS
             THEN IF h.PressedCounter + 1 >= PRESS_MOVE_SPEED
                  THEN [PressCounter |-> c, PressedCounter |-> 0, TapAndHold |-> TRUE]
                  ELSE [PressCounter |-> c, PressedCounter |-> h.PressedCounter + 1,
                        TapAndHold |-> FALSE]
             ELSE [h EXCEPT !.PressCounter = c]
    ELSE [PressCounter |-> 0, PressedCounter |-> 0, TapAndHold |-> FALSE]

HoldStep(last, cur, h) ==
    IF last = 0 /\ cur = 0
    THEN LET c == IF h.PressCounter >= PRESS_TICKS + CONTINUE_PRESS_TICKS
                  THEN h.PressCounter ELSE h.PressCounter + 1
             speed == IF c >= PRESS_TICKS + CONTINUE_PRESS_TICKS
                      THEN CONTINUE_PRESS_MOVE_SPEED ELSE PRESS_MOVE_SPEED
         IN  IF c >= PRESS_TICKS
             THEN IF h.PressedCounter + 1 >= speed
                  THEN [PressCounter |-> c, PressedCounter |-> 0, TapAndHold |-> TRUE]
                  ELSE [PressCounter |-> c, PressedCounter |-> h.PressedCounter + 1,
                        TapAndHold |-> FALSE]
             ELSE [h EXCEPT !.PressCounter = c]
    ELSE [PressCounter |-> 0, PressedCounter |-> 0, TapAndHold |-> FALSE]

HoldIdle == [PressCounter |-> 0, PressedCounter |-> 0, TapAndHold |-> FALSE]

\* the index wrapped back into the page as the last lines of OLED_KeyAndEncoderRecord do
WrapActiveMenuID_clamped(ActiveMenuID, MaxID) ==
    IF ActiveMenuID > MaxID - 1 THEN MaxID - 1
    ELSE IF ActiveMenuID < 0 THEN 0 ELSE ActiveMenuID

WrapActiveMenuID(ActiveMenuID, MaxID) ==
    LET upper == IF ActiveMenuID > MaxID - 1 THEN 0 ELSE ActiveMenuID
    IN  IF upper < 0 THEN MaxID - 1 ELSE upper

\* OLED_KeyAndEncoderRecord: the new key record, the statics and IncreaseID
OLED_KeyAndEncoderRecord(pins, encoder) ==
    LET last == OLED_UI_Key
        up == HoldStep(last.Up, pins.Up, keyHold.Up)
        down == HoldStep(last.Down, pins.Down, keyHold.Down)
        hold == IF pins.Up = pins.Down
                THEN [Up |-> [up EXCEPT !.TapAndHold = FALSE],
                      Down |-> [down EXCEPT !.TapAndHold = FALSE]]
                ELSE [Up |-> up, Down |-> down]
        MaxID == GetMenuItemNum(CurrentMenuPage)
        LastActiveID == menu[CurrentMenuPage]._ActiveMenuID
        afterUp == IF (pins.Up # last.Up /\ pins.Up = 1) \/ hold.Up.TapAndHold THEN 1 ELSE 0
        afterDown == IF (pins.Down # last.Down /\ pins.Down = 1) \/ hold.Down.TapAndHold
                     THEN 1 ELSE 0
        ActiveMenuID == LastActiveID + encoder - afterUp + afterDown
    IN  [Key |-> pins, LastKey |-> last, hold |-> hold,
         IncreaseID |-> [Unsafe |-> ActiveMenuID - LastActiveID,
                         Safe |-> WrapActiveMenuID(ActiveMenuID, MaxID) - LastActiveID]]

\* one pass of the "up" loop body of OLED_UI_InterruptHandler on the page record m
\* and the start point target pt
KeyUpStep(page, n) ==
    IF MenuPages[page].General_MenuType = MENU_TYPE_LIST
    THEN [m |-> [n.m EXCEPT !._Slot = IF @ > 0 THEN @ - 1 ELSE @,
                            !._ActiveMenuID = @ - 1],
          pt |-> IF n.m._Slot = 0 /\ n.m._ActiveMenuID # 0
                 THEN MenuItemsMoveDown(n.pt, page) ELSE n.pt]
    ELSE [m |-> [n.m EXCEPT !._ActiveMenuID = @ - 1],
          pt |-> MenuItemsMoveRight(n.pt, page)]

KeyDownStep_no_scroll(page, n) ==
    IF MenuPages[page].General_MenuType = MENU_TYPE_LIST
    THEN [m |-> [n.m EXCEPT !._Slot = IF @ < GetCurrentMenuPageMaxSlotNum(page) - 1
                                      THEN @ + 1 ELSE @,
                            !._ActiveMenuID = @ + 1],
          pt |-> n.pt]
    ELSE [m |-> [n.m EXCEPT !._ActiveMenuID = @ + 1],
          pt |-> MenuItemsMoveLeft(n.pt, page)]

KeyDownStep(page, n) ==
    IF MenuPages[page].General_MenuType = MENU_TYPE_LIST
    THEN [m |-> [n.m EXCEPT !._Slot = IF @ < GetCurrentMenuPageMaxSlotNum(page) - 1
                                      THEN @ + 1 ELSE @,
                            !._ActiveMenuID = @ + 1],
          pt |-> IF /\ n.m._Slot = GetCurrentMenuPageMaxSlotNum(page) - 1
                    /\ n.m._ActiveMenuID # GetMenuItemNum(page)
                 THEN MenuItemsMoveUp(n.pt, page) ELSE n.pt]
    ELSE [m |-> [n.m EXCEPT !._ActiveMenuID = @ + 1],
          pt |-> MenuItemsMoveLeft(n.pt, page)]

RECURSIVE MoveActive(_, _, _)
\* the two for loops of OLED_UI_InterruptHandler: |Safe| single steps
MoveActive(page, n, Safe) ==
    IF Safe < 0 THEN MoveActive(page, KeyUpStep(page, n), Safe + 1)
    ELSE IF Safe > 0 THEN MoveActive(page, KeyDownStep(page, n), Safe - 1)
    ELSE n

GetWindowDataStyle(window) ==
    IF MenuWindows[window].Prob_Data_Int THEN WINDOW_DATA_STYLE_INT
    ELSE IF MenuWindows[window].Prob_Data_Float THEN WINDOW_DATA_STYLE_FLOAT
    ELSE WINDOW_DATA_STYLE_NONE

\* the usual arithmetic conversion of an int16_t to float
FloatOfInt(i) == i * FloatScale

\* the conversion of a float to int16_t on assignment: the fraction is discarded
IntOfFloat(f) == IF f >= 0 THEN f \div FloatScale ELSE -((-f) \div FloatScale)

\* the data edit of the handler: *Prob_Data += Unsafe * Prob_DataStep, then the two
\* range tests; v is an int16_t for an int box and a float (in halves) for a float box
EditWindowData(v, Unsafe, window) ==
    LET w == MenuWindows[window]
    IN  IF GetWindowDataStyle(window) = WINDOW_DATA_STYLE_INT
        THEN LET added == IntOfFloat(FloatOfInt(v) + Unsafe * w.Prob_DataStep)
                 low == IF FloatOfInt(added) < w.Prob_MinData
                        THEN IntOfFloat(w.Prob_MinData) ELSE added
             IN  IF FloatOfInt(low) > w.Prob_MaxData THEN IntOfFloat(w.Prob_MaxData) ELSE low
        ELSE IF GetWindowDataStyle(window) = WINDOW_DATA_STYLE_FLOAT
        THEN LET added == v + Unsafe * w.Prob_DataStep
                 low == IF added < w.Prob_MinData THEN w.Prob_MinData ELSE added
             IN  IF low > w.Prob_MaxData THEN w.Prob_MaxData ELSE low
        ELSE v

\* SetEnterFlag and SetFadeOutFlag on the record of the two flags and the encoder gate
SetEnterFlag(flags) == [flags EXCEPT !.KeyEnterFlag = FLAGSTART, !.encoderEnabled = FALSE]

SetFadeOutFlag(flags, action) == [flags EXCEPT !.FadeOutFlag = action, !.encoderEnabled = FALSE]

BackEventMenuItem_any_page(page, flags) == SetFadeOutFlag(flags, BACK_FLAGSTART)

BackEventMenuItem(page, flags) ==
    IF MenuPages[page].General_ParentMenuPage # NULL
    THEN SetFadeOutFlag(flags, BACK_FLAGSTART) ELSE flags

EnterEventMenuItem_any_callback(item, flags) ==
    LET entered == IF item.General_callback # NULL
                   THEN SetEnterFlag(flags) ELSE flags
    IN  IF item.General_SubMenuPage # NULL /\ item.General_callback = NULL
        THEN SetFadeOutFlag(entered, ENTER_FLAGSTART) ELSE entered

EnterEventMenuItem(item, flags) ==
    LET entered == IF item.General_callback # NULL /\ item.General_SubMenuPage = NULL
                   THEN SetEnterFlag(flags) ELSE flags
    IN  IF item.General_SubMenuPage # NULL /\ item.General_callback = NULL
        THEN SetFadeOutFlag(entered, ENTER_FLAGSTART) ELSE entered

\* the window counter after the Back and Enter branches of the handler while a
\* window is on display: Back puts it on the threshold, Enter back to 0
WindowKeyCount(count, backEdge, enterEdge, window) ==
    LET back == IF backEdge THEN MenuWindows[window].ContinueTicks ELSE count
    IN  IF enterEdge THEN 0 ELSE back

\* TargetArea of OLED_UI_Window as OLED_UI_CreateWindow and OLED_DrawWindow set it
WindowCentred(window) ==
    [X |-> (OLED_WIDTH - MenuWindows[window].General_Width) \div 2,
     Y |-> (OLED_HEIGHT - MenuWindows[window].General_Height) \div 2,
     Width |-> MenuWindows[window].General_Width,
     Height |-> MenuWindows[window].General_Height]

WindowOffScreen == [X |-> (OLED_WIDTH - 60) \div 2, Y |-> -40, Width |-> 60, Height |-> 30]

EncoderCounts == (-MaxEncoderStep)..MaxEncoderStep

NoEdit == [window |-> FALSE, before |-> 0, delta |-> 0]

NoEnter == [page |-> NULL, pt |-> [X |-> 0, Y |-> 0], step |-> [TargetDistance |-> 0],
            active |-> 0]

\* the record of a page no one has entered yet
PageUnvisited == [_ActiveMenuID |-> 0, _Slot |-> 0, _StartPoint |-> [X |-> 0, Y |-> 0]]

\* the state of the engine with Page on display, the page records in `records`
\* and the start point target pt, after OLED_UI_CreateWindow(window) unless
\* window is NULL, the window's variable holding data
UiStateOf(Page, records, pt, window, data) ==
    /\ keyPin = KeysReleased
    /\ encoderCount = 0
    /\ OLED_UI_Key = KeysReleased
    /\ OLED_UI_LastKey = KeysReleased
    /\ keyHold = [Up |-> HoldIdle, Down |-> HoldIdle]
    /\ KeyEnterFlag = FLAGEND
    /\ FadeOutFlag = FLAGEND
    /\ CurrentMenuPage = Page
    /\ OLED_UI_LineStep = [TargetDistance |-> MenuPages[Page].General_LineSpace]
    /\ menu = records
    /\ OLED_UI_PageStartPoint = pt
    /\ OLED_SustainCounter = [SustainFlag |-> window # NULL, count |-> 0]
    /\ CurrentWindow = window
    /\ OLED_UI_Window = [TargetArea |-> IF window # NULL THEN WindowCentred(window)
                                        ELSE [X |-> 0, Y |-> 0, Width |-> 0, Height |-> 0]]
    /\ windowData = [w \in Windows |-> IF w = window THEN data ELSE 0]
    /\ lastEdit = NoEdit
    /\ radioBox = [b \in RadioBoxes |-> FALSE]
    /\ FadeOut_Seq = 0
    /\ sinceFadeStep = 0
    /\ fadeMask = 0
    /\ preEnter = NoEnter
    /\ encoderEnabled = TRUE
    /\ uiPc = "loop"
    /\ uiSeq = 0
    /\ IncreaseID = [Unsafe |-> 0, Safe |-> 0]

\* the page record and the start point target after OLED_UI_Init(page) and
\* `downs` single steps of the cursor down the page
PageAfterDowns(page, downs) ==
    MoveActive(page, [m |-> PageUnvisited, pt |-> PageInitPoint(page)], downs)

\* the state of the engine after OLED_UI_Init(Page), the cursor then moved down
\* by `downs` single steps, and after OLED_UI_CreateWindow(window) unless window
\* is NULL, the window's variable holding data
UiStateWith(Page, downs, window, data) ==
    UiStateOf(Page,
              [p \in Pages |-> IF p = Page THEN PageAfterDowns(Page, downs).m ELSE PageUnvisited],
              PageAfterDowns(Page, downs).pt, window, data)

UiAfterInitWith(Page) == UiStateWith(Page, 0, NULL, 0)

UiAfterInit == UiAfterInitWith("MainMenuPage")

\* a key is pressed or released between two ticks
KeyChange(k) ==
    /\ keyPin' = [keyPin EXCEPT ![k] = 1 - @]
    /\ UNCHANGED <<encoderCount, uiKeyVars, KeyEnterFlag, FadeOutFlag, uiPageVars, uiWindowVars,
                   radioBox, uiFadeVars, encoderEnabled, uiPc, uiSeq>>
    /\ UNCHANGED <<curVars, encVars, btnVars, tmrVars, anim, dmaStream, mgrVars>>

\* the encoder turns by one detent while its counter is enabled
EncoderTurn(d) ==
    /\ encoderEnabled
    /\ encoderCount + d \in EncoderCounts
    /\ encoderCount' = encoderCount + d
    /\ UNCHANGED <<keyPin, uiKeyVars, KeyEnterFlag, FadeOutFlag, uiPageVars, uiWindowVars,
                   radioBox, uiFadeVars, encoderEnabled, uiPc, uiSeq>>
    /\ UNCHANGED <<curVars, encVars, btnVars, tmrVars, anim, dmaStream, mgrVars>>

\* a millisecond of HAL_GetTick passes; RunFadeOut only compares the time since
\* FadeOut_Seq_StartTick with FADEOUT_TIME, so it is counted up to FADEOUT_TIME + 1
HAL_IncTick ==
    /\ sinceFadeStep <= FADEOUT_TIME
    /\ sinceFadeStep' = sinceFadeStep + 1
    /\ UNCHANGED <<keyPin, encoderCount, uiKeyVars, KeyEnterFlag, FadeOutFlag, uiPageVars,
                   uiWindowVars, radioBox, FadeOut_Seq, fadeMask, encoderEnabled, uiPc, uiSeq>>
    /\ UNCHANGED <<curVars, encVars, btnVars, tmrVars, anim, dmaStream, mgrVars>>

\* the tail of OLED_UI_InterruptHandler: the window counter
SustainTail_late(sustain) ==
    LET counted == IF sustain.SustainFlag THEN [sustain EXCEPT !.count = @ + 1] ELSE sustain
    IN  IF CurrentWindow # NULL /\ counted.count > MenuWindows[CurrentWindow].ContinueTicks
        THEN [SustainFlag |-> FALSE, count |-> 0]
        ELSE counted

SustainTail(sustain) ==
    LET counted == IF sustain.SustainFlag THEN [sustain EXCEPT !.count = @ + 1] ELSE sustain
    IN  IF CurrentWindow # NULL /\ counted.count >= MenuWindows[CurrentWindow].ContinueTicks
        THEN [SustainFlag |-> FALSE, count |-> 0]
        ELSE counted

\* Encoder_Get: the counts since the last call
Encoder_Get == encoderCount

\* the periodic interrupt of TIM1
OLED_UI_InterruptHandler ==
    LET page == CurrentMenuPage
        rec == OLED_KeyAndEncoderRecord(keyPin, Encoder_Get)
        window == OLED_SustainCounter.SustainFlag
        Unsafe == rec.IncreaseID.Unsafe
        Safe == IF window THEN 0 ELSE rec.IncreaseID.Safe
        moved == MoveActive(page, [m |-> menu[page], pt |-> OLED_UI_PageStartPoint], Safe)
        item == ActiveItem(page, moved.m)
        backEdge == rec.Key.Back # rec.LastKey.Back /\ rec.Key.Back = 1
        enterEdge == rec.Key.Enter # rec.LastKey.Enter /\ rec.Key.Enter = 1
        flags == [KeyEnterFlag |-> KeyEnterFlag, FadeOutFlag |-> FadeOutFlag,
                  encoderEnabled |-> encoderEnabled]
        afterBack == IF backEdge /\ ~window THEN BackEventMenuItem(page, flags) ELSE flags
        afterEnter == IF enterEdge /\ ~window
                      THEN EnterEventMenuItem(item, afterBack)
                      ELSE afterBack
        count1 == IF window /\ Unsafe # 0 THEN 0 ELSE OLED_SustainCounter.count
        count2 == IF window
                  THEN WindowKeyCount(count1, backEdge, enterEdge, CurrentWindow)
                  ELSE count1
        edited == IF window
                  THEN EditWindowData(windowData[CurrentWindow], Unsafe, CurrentWindow)
                  ELSE 0
    IN
    /\ IF GetEnterFlag /\ GetFadeoutFlag
        THEN /\ OLED_UI_Key' = rec.Key
             /\ OLED_UI_LastKey' = rec.LastKey
             /\ keyHold' = rec.hold
             /\ windowData' = IF window THEN [windowData EXCEPT ![CurrentWindow] = edited]
                              ELSE windowData
             /\ lastEdit' = IF window
                            THEN [window |-> TRUE,
                                  before |-> IF Unsafe # 0 THEN windowData[CurrentWindow] ELSE 0,
                                  delta |-> Unsafe]
                            ELSE NoEdit
             /\ menu' = [menu EXCEPT ![page] = moved.m]
             /\ OLED_UI_PageStartPoint' = moved.pt
             /\ KeyEnterFlag' = afterEnter.KeyEnterFlag
             /\ FadeOutFlag' = afterEnter.FadeOutFlag
             /\ encoderEnabled' = afterEnter.encoderEnabled
             /\ radioBox' = IF enterEdge /\ ~window /\ item.List_BoolRadioBox # NULL
                            THEN [radioBox EXCEPT ![item.List_BoolRadioBox] = ~@]
                            ELSE radioBox
             /\ OLED_SustainCounter' = SustainTail([OLED_SustainCounter EXCEPT !.count = count2])
             /\ encoderCount' = 0
             /\ IncreaseID' = [rec.IncreaseID EXCEPT !.Safe = Safe]
        ELSE /\ OLED_SustainCounter' = SustainTail(OLED_SustainCounter)
             /\ UNCHANGED <<encoderCount, OLED_UI_Key, OLED_UI_LastKey, keyHold, windowData,
                            lastEdit, menu, OLED_UI_PageStartPoint, KeyEnterFlag, FadeOutFlag,
                            encoderEnabled, radioBox, IncreaseID>>
    /\ uiSeq' = 1 - uiSeq
    /\ UNCHANGED <<keyPin, CurrentMenuPage, OLED_UI_LineStep, preEnter, CurrentWindow,
                   OLED_UI_Window, uiFadeVars, uiPc>>
    /\ UNCHANGED <<curVars, encVars, btnVars, tmrVars, anim, dmaStream, mgrVars>>

\* OLED_DrawWindow, called by MoveMenuElements: the target of a window that is no
\* longer sustained goes off screen, and the window pointer is dropped once the
\* animated area has got there (gone)
OLED_DrawWindow(gone) ==
    /\ OLED_UI_Window' = IF ~OLED_SustainCounter.SustainFlag
                         THEN [TargetArea |-> WindowOffScreen] ELSE OLED_UI_Window
    /\ CurrentWindow' = IF CurrentWindow # NULL /\ ~OLED_SustainCounter.SustainFlag /\ gone
                        THEN NULL ELSE CurrentWindow

\* the first stage of OLED_UI_MainLoop
MoveMenuElements ==
    /\ uiPc = "loop"
    /\ \E gone \in BOOLEAN : OLED_DrawWindow(gone)
    /\ uiPc' = "check"
    /\ UNCHANGED <<keyPin, encoderCount, uiKeyVars, KeyEnterFlag, FadeOutFlag, uiPageVars,
                   OLED_SustainCounter, windowData, lastEdit, radioBox, uiFadeVars,
                   encoderEnabled, uiSeq>>
    /\ UNCHANGED <<curVars, encVars, btnVars, tmrVars, anim, dmaStream, mgrVars>>

\* RunCurrentCallBackFunction reads KeyEnterFlag
RunCallbackCheck ==
    /\ uiPc = "check"
    /\ uiPc' = IF KeyEnterFlag = FLAGSTART THEN "callback" ELSE "fade"
    /\ UNCHANGED <<keyPin, encoderCount, uiKeyVars, KeyEnterFlag, FadeOutFlag, uiPageVars,
                   uiWindowVars, radioBox, uiFadeVars, encoderEnabled, uiSeq>>
    /\ UNCHANGED <<curVars, encVars, btnVars, tmrVars, anim, dmaStream, mgrVars>>

OLED_UI_CreateWindow(window) ==
    /\ OLED_SustainCounter' = [SustainFlag |-> TRUE, count |-> 0]
    /\ OLED_UI_Window' = [TargetArea |-> WindowCentred(window)]
    /\ CurrentWindow' = window

\* the callback of the active item runs to its end; "ShowWindow" calls
\* OLED_UI_CreateWindow on the value window
RunCallbackBody ==
    /\ uiPc = "callback"
    /\ IF ActiveItem(CurrentMenuPage, menu[CurrentMenuPage]).General_callback = "ShowWindow"
       THEN OLED_UI_CreateWindow("ValueWindow")
       ELSE UNCHANGED <<OLED_SustainCounter, OLED_UI_Window, CurrentWindow>>
    /\ uiPc' = "callbackReturned"
    /\ UNCHANGED <<keyPin, encoderCount, uiKeyVars, KeyEnterFlag, FadeOutFlag, uiPageVars,
                   windowData, lastEdit, radioBox, uiFadeVars, encoderEnabled, uiSeq>>
    /\ UNCHANGED <<curVars, encVars, btnVars, tmrVars, anim, dmaStream, mgrVars>>

\* ResetEnterFlag after the callback has returned
RunCallbackReset ==
    /\ uiPc = "callbackReturned"
    /\ KeyEnterFlag' = FLAGEND
    /\ uiPc' = "callbackEnable"
    /\ UNCHANGED <<keyPin, encoderCount, uiKeyVars, FadeOutFlag, uiPageVars, uiWindowVars,
                   radioBox, uiFadeVars, encoderEnabled, uiSeq>>
    /\ UNCHANGED <<curVars, encVars, btnVars, tmrVars, anim, dmaStream, mgrVars>>

\* Encoder_Enable, the last statement of RunCurrentCallBackFunction
RunCallbackEnable ==
    /\ uiPc = "callbackEnable"
    /\ encoderEnabled' = TRUE
    /\ uiPc' = "fade"
    /\ UNCHANGED <<keyPin, encoderCount, uiKeyVars, KeyEnterFlag, FadeOutFlag, uiPageVars,
                   uiWindowVars, radioBox, uiFadeVars, uiSeq>>
    /\ UNCHANGED <<curVars, encVars, btnVars, tmrVars, anim, dmaStream, mgrVars>>

\* RunFadeOut up to the ResetFadeOutFlag inside the page-type branch of step 6
RunFadeOut ==
    LET elapsed == sinceFadeStep > FADEOUT_TIME
        stepped == FadeOut_Seq # 0 /\ elapsed
        seq == IF stepped THEN FadeOut_Seq + 1 ELSE FadeOut_Seq
        since == IF stepped THEN 0 ELSE sinceFadeStep
        page == CurrentMenuPage
        child == ActiveItem(page, menu[page]).General_SubMenuPage
        parent == MenuPages[page].General_ParentMenuPage
    IN
    /\ uiPc = "fade"
    /\ IF FadeOutFlag = FLAGEND
        THEN /\ uiPc' = "loop"
             /\ UNCHANGED <<uiFadeVars, FadeOutFlag, uiPageVars>>
        ELSE IF seq = 0
        THEN /\ FadeOut_Seq' = 1
             /\ sinceFadeStep' = since
             /\ fadeMask' = 0
             /\ uiPc' = "loop"
             /\ UNCHANGED <<FadeOutFlag, uiPageVars>>
        ELSE IF seq = FADEOUT_LAST_SEQ
        THEN /\ FadeOut_Seq' = 0
             /\ sinceFadeStep' = since
             /\ fadeMask' = FADEOUT_LAST_SEQ - 1
             /\ uiPc' = "fadeEnd"
             /\ FadeOutFlag' = FLAGEND
             /\ IF FadeOutFlag = ENTER_FLAGSTART
                THEN /\ CurrentMenuPage' = child
                     /\ menu' = [menu EXCEPT
                                    ![page]._StartPoint = OLED_UI_PageStartPoint,
                                    ![child] = CurrentMenuPageInit(child, @)]
                     /\ OLED_UI_PageStartPoint' = PageInitPoint(child)
                     /\ OLED_UI_LineStep' = [TargetDistance |-> MenuPages[child].General_LineSpace]
                     /\ preEnter' = [page |-> page, pt |-> OLED_UI_PageStartPoint,
                                     step |-> OLED_UI_LineStep,
                                     active |-> menu[page]._ActiveMenuID]
                ELSE /\ CurrentMenuPage' = parent
                     /\ OLED_UI_PageStartPoint' = CurrentMenuPageBackUp(parent).pt
                     /\ OLED_UI_LineStep' = CurrentMenuPageBackUp(parent).step
                     /\ UNCHANGED <<menu, preEnter>>
        ELSE /\ FadeOut_Seq' = seq
             /\ sinceFadeStep' = since
             /\ fadeMask' = seq
             /\ uiPc' = "loop"
             /\ UNCHANGED <<FadeOutFlag, uiPageVars>>
    /\ UNCHANGED <<keyPin, encoderCount, uiKeyVars, KeyEnterFlag, uiWindowVars, radioBox,
                   encoderEnabled, uiSeq>>
    /\ UNCHANGED <<curVars, encVars, btnVars, tmrVars, anim, dmaStream, mgrVars>>

\* the last lines of step 6: SetCursorZero, ResetFadeOutFlag, Encoder_Enable
RunFadeOutEnd ==
    /\ uiPc = "fadeEnd"
    /\ FadeOutFlag' = FLAGEND
    /\ encoderEnabled' = TRUE
    /\ uiPc' = "loop"
    /\ UNCHANGED <<keyPin, encoderCount, uiKeyVars, KeyEnterFlag, uiPageVars, uiWindowVars,
                   radioBox, uiFadeVars, uiSeq>>
    /\ UNCHANGED <<curVars, encVars, btnVars, tmrVars, anim, dmaStream, mgrVars>>

----------------------------------------------------------------------------
(* Animation of a scalar (ChangeFloatNum) *)

(* A float of the animation is held in thousandths; a product or quotient is   *)
(* cut to a whole number of thousandths, toward zero.                          *)
FloatUnit == 1000

UNLINEAR == "UNLINEAR"
PID_CURVE == "PID_CURVE"

\* the quotient a / b cut toward zero, b > 0
FloatQuot(a, b) == IF a >= 0 THEN a \div b ELSE -((-a) \div b)

FloatMul(a, b) == FloatQuot(a * b, FloatUnit)

FloatAbs(a) == IF a >= 0 THEN a ELSE -a

\* the literals 0.02f, 0.005f, 0.002f, 0.1f, 0.5f and 20.0f of ChangeFloatNum
UNLINEAR_GAIN == 20
PID_KP_GAIN == 20
PID_KI_GAIN == 5
PID_KD == 2
PID_INTERVAL == 100
PID_SNAP == 500
UNLINEAR_SNAP_DIVISOR == 20

\* ChangeFloatNum on the six floats of s under the move style and speed of s
ChangeFloatNumOf(s) ==
    IF s.General_MoveStyle = UNLINEAR
    THEN IF s.CurrentNum = s.TargetNum THEN s
         ELSE IF s.General_MovingSpeed <= 0
         THEN [s EXCEPT !.ErrorNum = 0, !.LastErrorNum = 0, !.CurrentNum = s.TargetNum]
         ELSE LET error == s.TargetNum - s.CurrentNum
                  current == s.CurrentNum
                             + FloatMul(FloatMul(UNLINEAR_GAIN, s.General_MovingSpeed), error)
              IN  IF FloatAbs(current - s.TargetNum)
                        < FloatQuot(s.General_MovingSpeed, UNLINEAR_SNAP_DIVISOR)
                  THEN [s EXCEPT !.ErrorNum = 0, !.LastErrorNum = 0,
                                 !.CurrentNum = s.TargetNum]
                  ELSE [s EXCEPT !.LastErrorNum = s.ErrorNum, !.ErrorNum = error,
                                 !.CurrentNum = current]
    ELSE IF s.General_MovingSpeed <= 0
         THEN [s EXCEPT !.ErrorNum = 0, !.LastErrorNum = 0, !.DerivativeNum = 0,
                        !.IntegralNum = 0, !.CurrentNum = s.TargetNum]
         ELSE LET Kp == FloatMul(PID_KP_GAIN, s.General_MovingSpeed)
                  Ki == FloatMul(PID_KI_GAIN, s.General_MovingSpeed)
                  error == s.TargetNum - s.CurrentNum
                  integral == s.IntegralNum + error
                  derivative == FloatQuot((error - s.ErrorNum) * FloatUnit, PID_INTERVAL)
                  current == s.CurrentNum + FloatMul(Kp, error) + FloatMul(Ki, integral)
                             + FloatMul(PID_KD, derivative)
              IN  IF FloatAbs(s.TargetNum - current) < PID_SNAP
                  THEN [s EXCEPT !.ErrorNum = 0, !.LastErrorNum = 0, !.DerivativeNum = 0,
                                 !.IntegralNum = integral, !.CurrentNum = s.TargetNum]
                  ELSE [s EXCEPT !.LastErrorNum = s.ErrorNum, !.ErrorNum = error,
                                 !.IntegralNum = integral, !.DerivativeNum = derivative,
                                 !.CurrentNum = current]

\* a scalar at CurrentNum heading for TargetNum on a page of the given style and speed
AnimFrom(style, speed, current, target) ==
    anim = [CurrentNum |-> current, TargetNum |-> target, ErrorNum |-> 0, LastErrorNum |-> 0,
            IntegralNum |-> 0, DerivativeNum |-> 0,
            General_MoveStyle |-> style, General_MovingSpeed |-> speed]

AnimAtRest == AnimFrom(UNLINEAR, 0, 0, 0)

\* one frame of the animation of the scalar
ChangeFloatNum ==
    /\ anim' = ChangeFloatNumOf(anim)
    /\ UNCHANGED <<curVars, encVars, btnVars, tmrVars, uiVars, dmaStream, mgrVars>>

----------------------------------------------------------------------------
(* Initialisation of the sampler's DMA stream (adc_dma_init, dma_init) *)

\* the most polls of the EN bit one wait loop is followed for
MaxPolls == 4

\* the error flags of stream 0 in DMA2->LISR; HTIF0 and TCIF0 are variables
DmaErrorFlags == {"FEIF0", "DMEIF0", "TEIF0"}

\* the stream as adc_dma_init leaves it
DmaRunning ==
    dmaStream = [pc |-> "running", EN |-> 1, disabling |-> FALSE, flags |-> {}, polls |-> 0]

\* the stream when adc_dma_init is entered: enabled or not, any flags pending
DmaBeforeInit(EN, flags) ==
    dmaStream = [pc |-> "bsp_disable", EN |-> EN, disabling |-> FALSE, flags |-> flags,
                 polls |-> 0]

\* DMAStream->CR &= ~DMA_SxCR_EN: an enabled stream keeps reading EN = 1 until
\* the hardware has stopped it
DmaDisable(at, to) ==
    /\ dmaStream.pc = at
    /\ dmaStream' = [dmaStream EXCEPT !.pc = to, !.disabling = (dmaStream.EN = 1),
                                      !.polls = 0]
    /\ UNCHANGED <<curVars>>

\* one evaluation of while (DMAStream->CR & DMA_SxCR_EN)
DmaWaitDisabled(at, to) ==
    /\ dmaStream.pc = at
    /\ dmaStream' = [dmaStream EXCEPT
                        !.pc = IF dmaStream.EN = 0 THEN to ELSE at,
                        !.polls = IF @ < MaxPolls THEN @ + 1 ELSE @]
    /\ UNCHANGED <<curVars>>

\* DMA2->LIFCR = 0x3F << 0
DmaClearFlags(at, to) ==
    /\ dmaStream.pc = at
    /\ dmaStream' = [dmaStream EXCEPT !.pc = to, !.flags = {}]
    /\ HTIF0' = 0
    /\ TCIF0' = 0
    /\ UNCHANGED <<system_tick_ms, current_timer, current_adcBuffer, dmaHalf,
                   current_adcAverageReady, sum, current_adcAverage, motor_enable, pcCur,
                   tcSinceRead>>

\* the hardware has stopped the stream it was asked to disable; the transfer
\* it breaks off may set the transfer-complete flag
DmaStreamStopped ==
    /\ dmaStream.disabling
    /\ dmaStream' = [dmaStream EXCEPT !.EN = 0, !.disabling = FALSE]
    /\ \E complete \in {0, 1} : TCIF0' = IF complete = 1 THEN 1 ELSE TCIF0
    /\ UNCHANGED <<system_tick_ms, current_timer, current_adcBuffer, dmaHalf, HTIF0,
                   current_adcAverageReady, sum, current_adcAverage, motor_enable, pcCur,
                   tcSinceRead>>
    /\ UNCHANGED <<encVars, btnVars, tmrVars, uiVars, anim, mgrVars>>

\* dma_init: disable, wait, clear the flags, write PAR, M0AR, NDTR, CR and FCR
dma_init ==
    /\ \/ DmaDisable("init_disable", "init_wait")
       \/ DmaWaitDisabled("init_wait", "init_clear")
       \/ DmaClearFlags("init_clear", "init_config")
       \/ /\ dmaStream.pc = "init_config"
          /\ dmaStream' = [dmaStream EXCEPT !.pc = "transfer", !.EN = 0]
          /\ UNCHANGED <<curVars>>
    /\ UNCHANGED <<encVars, btnVars, tmrVars, uiVars, anim, mgrVars>>

\* adc_dma_init from the reset of the DMA configuration on: its own disable,
\* wait and clear, dma_init, dma_config_transfer (EN is 0 there, so only its
\* flag clearing acts) and dma_enable
adc_dma_init ==
    /\ \/ DmaDisable("bsp_disable", "bsp_wait")
       \/ DmaWaitDisabled("bsp_wait", "bsp_clear")
       \/ DmaClearFlags("bsp_clear", "init_disable")
       \/ DmaClearFlags("transfer", "enable")
       \/ /\ dmaStream.pc = "enable"
          /\ dmaStream' = [dmaStream EXCEPT !.pc = "running", !.EN = 1]
          /\ UNCHANGED <<curVars>>
    /\ UNCHANGED <<encVars, btnVars, tmrVars, uiVars, anim, mgrVars>>

----------------------------------------------------------------------------
(* Specifications *)

InitCur == CurAfterInit /\ EncAfterInit /\ BtnAfterInit /\ TmrIdle /\ UiAfterInit /\ AnimAtRest /\ DmaRunning

NextCur ==
    \/ SysTick_Handler
    \/ \E code \in AdcCodes : DmaHalfTransfer(code)
    \/ DMA2_Stream0_IRQHandler
    \/ CurEnter
    \/ CurSumFirst
    \/ CurSumRest
    \/ CurClear

SpecCur == InitCur /\ [][NextCur]_vars

InitEnc == CurAfterInit /\ EncAfterInit /\ BtnAfterInit /\ TmrIdle /\ UiAfterInit /\ AnimAtRest /\ DmaRunning

NextEnc ==
    \/ \E d \in ShaftMoves : ShaftMove(d)
    \/ TIM2_IRQHandler
    \/ EncUpdateRead
    \/ EncUpdateWrite

SpecEnc == InitEnc /\ [][NextEnc]_vars

InitRpm == CurAfterInit /\ BtnAfterInit /\ TmrIdle /\ UiAfterInit /\ \E cpr \in CprSamples : EncAfterInitWith(cpr) /\ AnimAtRest /\ DmaRunning

NextRpm ==
    \/ \E d \in RpmMoves : ShaftMoveInLap(d)
    \/ \E now \in NowSamples : RpmCall(now)

SpecRpm == InitRpm /\ [][NextRpm]_vars

InitBtn ==
    /\ AnimAtRest
    /\ DmaRunning
    /\ UiAfterInit
    /\ CurAfterInit
    /\ EncAfterInit
    /\ TmrIdle
    /\ \E active_level \in {BUTTON_ACTIVE_LOW, BUTTON_ACTIVE_HIGH} : BtnAfterInitWith(active_level, {})

NextBtn ==
    \/ \E b \in BtnInputs : PinChange(b)
    \/ \E b \in Buttons : ButtonCheck(b)
    \/ \E b \in Buttons : ButtonIsPressed(b)
    \/ \E b \in Buttons : ButtonPressed(b)

SpecBtn == InitBtn /\ [][NextBtn]_vars

NextBtnScenario ==
    \/ ScenarioScan
    \/ ButtonIsPressed(ScenarioButton)
    \/ ButtonPressed(ScenarioButton)

SpecBtnScenario == InitBtn /\ [][NextBtnScenario]_vars


InitMotor ==
    /\ AnimAtRest
    /\ DmaRunning
    /\ UiAfterInit
    /\ CurAfterInit
    /\ EncAfterInit
    /\ TmrIdle
    /\ \E held \in SUBSET MotorHeldAtPowerUp : BtnAfterInitWith(BUTTON_ACTIVE_LOW, held)

NextMotor ==
    \/ SysTickMainLoop
    \/ \E code \in MotorCodes : DmaWhileSampling(code)
    \/ DMA2_Stream0_IRQHandler
    \/ current_handler
    \/ \E b \in MotorInputs : PinChangeCounted(b)
    \/ button_handler

SpecMotor == InitMotor /\ [][NextMotor]_vars

(* Bound of the button manager model *)
MaxMgrTick == 21

\* handles that fill the entries of an array longer than the four of event.c
MoreButtons == {"button5", "button6", "button7", "button8", "button9"}

\* a Button_HandleTypeDef that button_init never saw
BlankButton == "blank"
button_blank ==
    [active_level |-> 0, current_state |-> 0, last_state |-> 0,
     press_event |-> 0, debounce_shift_reg |-> 0, initialized |-> 0]

\* an array of BUTTON_MAX_BUTTONS + 1 initialised handles
LongArray ==
    <<"up", "down", "enter", "return", "button5", "button6", "button7", "button8", "button9">>

\* entries that may hold NULL or the blank handle instead
DefectEntries == {1, 4, 8}

\* the arrays handed to button_manager_init
ButtonArrays ==
    {LongArray} \cup {[LongArray EXCEPT ![i] = d] : i \in DefectEntries, d \in {NULL, BlankButton}}

\* buttons the user presses and releases in the manager model
MgrInputs == {"enter", "button5"}

\* the call button_manager_init(manager, buttons, count) of button_system_init
ButtonManagerInit ==
    /\ ~mgrCall.returned
    /\ LET r == button_manager_init(mgrCall.manager, button_manager, mgrCall.buttons,
                                    button_array, mgrCall.count, btn)
       IN /\ button_manager' = r.manager
          /\ mgrCall' = [mgrCall EXCEPT !.ret = r.ret, !.returned = TRUE]
    /\ UNCHANGED <<button_array, curVars, encVars, btnVars, tmrVars, uiVars, anim, dmaStream>>

\* before the call: the handles initialised by button_init, the manager zeroed,
\* any arguments
InitMgr ==
    /\ AnimAtRest
    /\ DmaRunning
    /\ UiAfterInit
    /\ CurAfterInit
    /\ EncAfterInit
    /\ TmrIdle
    /\ btn = [b \in Buttons \cup MoreButtons \cup {BlankButton} |->
                 IF b = BlankButton THEN button_blank ELSE button_init(BUTTON_ACTIVE_LOW)]
    /\ btnPin = [b \in Buttons \cup MoreButtons \cup {BlankButton} |-> 1 - BUTTON_ACTIVE_LOW]
    /\ btnOp = [fn |-> "button_init", b |-> "return", val |-> 0]
    /\ btnSeq = 0
    /\ scan_timer = systick_timer_start(systick_timer_init(BUTTON_SCAN_INTERVAL_MS, 1), U32Of(0))
    /\ motor_running = 1
    /\ motor_p = 1
    /\ motor_m = 0
    /\ nPinChanges = 0
    /\ nScans = 0
    /\ button_manager = ManagerZeroed
    /\ button_array \in ButtonArrays
    /\ \E manager \in {NULL, "button_manager"} : \E buttons \in {NULL, "button_array"} :
         \E count \in 0..(BUTTON_MAX_BUTTONS + 1) :
           mgrCall = [manager |-> manager, buttons |-> buttons, count |-> count,
                      ret |-> 0, returned |-> FALSE]

NextMgr ==
    \/ ButtonManagerInit
    \/ mgrCall.returned /\ ~TimerIsExpired(scan_timer, system_tick_ms) /\ SysTick(MaxMgrTick)
    \/ mgrCall.returned /\ \E b \in MgrInputs : PinChangeCounted(b)
    \/ mgrCall.returned /\ button_handler

SpecMgr == InitMgr /\ [][NextMgr]_vars

\* the sampler state with system_tick_ms at the given value
CurAfterInitAt(tick) ==
    /\ system_tick_ms = tick
    /\ current_timer = systick_timer_start(systick_timer_init(1, 1), U32Of(0))
    /\ current_adcBuffer = [i \in 0..(ADC_BUF_LEN - 1) |-> 0]
    /\ dmaHalf = 0
    /\ HTIF0 = 0
    /\ TCIF0 = 0
    /\ current_adcAverageReady = 0
    /\ sum = 0
    /\ current_adcAverage = 0
    /\ motor_enable = 1
    /\ pcCur = "idle"
    /\ tcSinceRead = FALSE

InitTimer ==
    /\ AnimAtRest
    /\ DmaRunning
    /\ UiAfterInit
    /\ \E tick \in TickSamples : CurAfterInitAt(tick)
    /\ EncAfterInit
    /\ BtnAfterInit
    /\ \E interval_ms \in TimerIntervals, auto_reload \in {0, 1} :
          TmrAfterInit(interval_ms, auto_reload)

NextTimer ==
    \/ TimerTick
    \/ TimerStart
    \/ TimerPoll
    \/ TimerReload

SpecTimer == InitTimer /\ [][NextTimer]_vars

InitDelay ==
    /\ AnimAtRest
    /\ DmaRunning
    /\ UiAfterInit
    /\ \E tick \in TickSamples : CurAfterInitAt(tick)
    /\ EncAfterInit
    /\ BtnAfterInit
    /\ TmrIdle

NextDelay ==
    \/ TimerTick
    \/ \E start_time_ms \in SinceSamples : ElapsedCall(start_time_ms)
    \/ \E delay_ms \in 0..MaxDelay : DelayStart(delay_ms)
    \/ DelayPoll

SpecDelay == InitDelay /\ [][NextDelay]_vars

\* the tick interrupt keeps firing and the polling loop keeps running
SpecDelayFair == SpecDelay /\ WF_vars(TimerTick) /\ WF_vars(DelayPoll)

NavKeys == {"Up", "Down"}

InitNav ==
    /\ AnimAtRest
    /\ DmaRunning
    /\ CurAfterInit
    /\ EncAfterInit
    /\ BtnAfterInit
    /\ TmrIdle
    /\ \E Page \in Pages : UiAfterInitWith(Page)

NextNav ==
    \/ \E k \in NavKeys : KeyChange(k)
    \/ \E d \in {-1, 1} : EncoderTurn(d)
    \/ OLED_UI_InterruptHandler

SpecNav == InitNav /\ [][NextNav]_vars

UiKeys == {"Enter", "Back"}

\* the root page is on display and the cursor has been moved down to any of its items
InitUi ==
    /\ AnimAtRest
    /\ DmaRunning
    /\ CurAfterInit
    /\ EncAfterInit
    /\ BtnAfterInit
    /\ TmrIdle
    /\ \E downs \in 0..(GetMenuItemNum("MainMenuPage") - 1) :
            UiStateWith("MainMenuPage", downs, NULL, 0)

OLED_UI_MainLoop ==
    \/ MoveMenuElements
    \/ RunCallbackCheck
    \/ RunCallbackBody
    \/ RunCallbackReset
    \/ RunCallbackEnable
    \/ RunFadeOut
    \/ RunFadeOutEnd

NextUi ==
    \/ \E k \in UiKeys : KeyChange(k)
    \/ OLED_UI_InterruptHandler
    \/ HAL_IncTick
    \/ OLED_UI_MainLoop

SpecUi == InitUi /\ [][NextUi]_vars

\* OLED_UI_start calls OLED_UI_MainLoop for ever, so the foreground always takes
\* its next step
SpecUiFair == SpecUi /\ WF_vars(OLED_UI_MainLoop)

\* the page record a child page keeps after a visit that moved its cursor to
\* the last item and then returned, or the record of a page never entered
PageLeftAt(page, visited) ==
    IF visited THEN PageAfterDowns(page, GetMenuItemNum(page) - 1).m ELSE PageUnvisited

\* the root page is on display with the cursor on any of its items, and the
\* child pages have either been visited before or never been entered
InitTrip ==
    /\ AnimAtRest
    /\ DmaRunning
    /\ CurAfterInit
    /\ EncAfterInit
    /\ BtnAfterInit
    /\ TmrIdle
    /\ \E downs \in 0..(GetMenuItemNum("MainMenuPage") - 1) : \E visited \in BOOLEAN :
            UiStateOf("MainMenuPage",
                      [p \in Pages |-> IF p = "MainMenuPage"
                                       THEN PageAfterDowns("MainMenuPage", downs).m
                                       ELSE PageLeftAt(p, visited)],
                      PageAfterDowns("MainMenuPage", downs).pt, NULL, 0)

SpecTrip == InitTrip /\ [][NextUi]_vars

\* the values the variable of a window's box can hold
WindowDataRange(window) ==
    IF GetWindowDataStyle(window) = WINDOW_DATA_STYLE_INT
    THEN IntOfFloat(MenuWindows[window].Prob_MinData)..IntOfFloat(MenuWindows[window].Prob_MaxData)
    ELSE MenuWindows[window].Prob_MinData..MenuWindows[window].Prob_MaxData

\* a window has just been created over a page of two items
InitWindow ==
    /\ AnimAtRest
    /\ DmaRunning
    /\ CurAfterInit
    /\ EncAfterInit
    /\ BtnAfterInit
    /\ TmrIdle
    /\ \E window \in Windows : \E data \in WindowDataRange(window) :
            UiStateWith("SettingsPage", 0, window, data)

NextWindow ==
    \/ \E k \in NavKeys : KeyChange(k)
    \/ \E d \in {-1, 1} : EncoderTurn(d)
    \/ OLED_UI_InterruptHandler

SpecWindow == InitWindow /\ [][NextWindow]_vars

\* speeds, in thousandths: 0 snaps, 5 and 10 animate
MovingSpeeds == {0, 5 * FloatUnit, 10 * FloatUnit}

\* start and target values on and around a display of 128 by 64, in thousandths
AnimStarts == {0, (-40) * FloatUnit}

AnimTargets == {10 * FloatUnit, 64 * FloatUnit}

InitAnim ==
    /\ CurAfterInit
    /\ EncAfterInit
    /\ BtnAfterInit
    /\ TmrIdle
    /\ UiAfterInit
    /\ DmaRunning
    /\ \E style \in {UNLINEAR, PID_CURVE} : \E speed \in MovingSpeeds :
        \E current \in AnimStarts : \E target \in AnimTargets :
            AnimFrom(style, speed, current, target)

SpecAnim == InitAnim /\ [][ChangeFloatNum]_vars

\* adc_dma_init is entered with the stream enabled or not and any flags pending
InitDma ==
    /\ EncAfterInit
    /\ BtnAfterInit
    /\ TmrIdle
    /\ UiAfterInit
    /\ AnimAtRest
    /\ \E tick \in TickSamples : CurAfterInitAt(tick)
    /\ \E EN \in {0, 1} : \E flags \in SUBSET DmaErrorFlags : DmaBeforeInit(EN, flags)

NextDma ==
    \/ adc_dma_init
    \/ dma_init
    \/ DmaStreamStopped

SpecDma == InitDma /\ [][NextDma]_vars

----------------------------------------------------------------------------
(* Claims about the sampler and the protection loop (SpecCur) *)

\* sum of buf over the cells S, by counting the cells holding each value
RECURSIVE WeightedSum(_, _, _)
WeightedSum(buf, S, values) ==
    IF values = {} THEN 0
    ELSE LET v == CHOOSE w \in values : TRUE
         IN v * Cardinality({i \in S : buf[i] = v}) + WeightedSum(buf, S, values \ {v})
SumOver(buf, S) == WeightedSum(buf, S, {buf[i] : i \in S})

\* C1: a protection pass that finds batch_ready set sums the 200 cells,
\* stores sum / 200 as the average, drives motor-enable to 0 exactly when that
\* average is above 3400 (otherwise leaves the pin alone) and clears
\* batch_ready; 200 samples of 3500 cut the motor, 200 samples of 3300 do not;
\* a pass that finds batch_ready clear changes neither the pin nor the average.
C1_OvercurrentCutOff ==
    [][ /\ (pcCur = "sum1" /\ pcCur' = "sum2") =>
              sum' = SumOver(current_adcBuffer, 0..99)
        /\ (pcCur = "sum2" /\ pcCur' = "clr") =>
              LET total == sum + SumOver(current_adcBuffer, 100..199)
              IN /\ sum' = total
                 /\ current_adcAverage' * 200 <= total
                 /\ total < (current_adcAverage' + 1) * 200
                 /\ (total >= 3401 * 200) => motor_enable' = 0
                 /\ (total < 3401 * 200) => motor_enable' = motor_enable
                 /\ (total = 200 * 3500) => motor_enable' = 0
                 /\ (total = 200 * 3300) => motor_enable' = motor_enable
        /\ (pcCur = "clr" /\ pcCur' = "idle") => current_adcAverageReady' = 0
        /\ (pcCur = "idle" /\ pcCur' = "idle") =>
              /\ motor_enable' = motor_enable
              /\ current_adcAverage' = current_adcAverage
        /\ (pcCur = "idle" /\ pcCur' = "sum1") => current_adcAverageReady = 1
        /\ (pcCur = "idle" /\ current_timer' # current_timer /\ current_adcAverageReady = 1)
              => pcCur' = "sum1"
      ]_vars

\* a pass has averaged a ring of 200 samples of 3500 and cut the motor
C1_Witness ==
    /\ pcCur = "clr"
    /\ sum = 200 * 3500
    /\ current_adcAverage = 3500
    /\ motor_enable = 0

\* C3: the transfer-complete interrupt leaves batch_ready set with every cell
\* of the ring in 0..4095; an interrupt raised by the half-transfer flag alone
\* clears that flag and changes nothing else.
C3_TransferComplete ==
    [][ /\ (TCIF0 = 1 /\ TCIF0' = 0) =>
              /\ current_adcAverageReady' = 1
              /\ \A i \in 0..199 : current_adcBuffer'[i] \in 0..4095
        /\ (HTIF0 = 1 /\ HTIF0' = 0 /\ TCIF0 = 0) =>
              /\ TCIF0' = 0
              /\ UNCHANGED <<current_adcAverageReady, current_adcBuffer, dmaHalf, sum,
                             current_adcAverage, motor_enable, pcCur, system_tick_ms,
                             current_timer>>
      ]_vars

\* the transfer-complete interrupt has run after a full lap of non-zero samples
C3_Witness ==
    /\ tcSinceRead
    /\ current_adcAverageReady = 1
    /\ TCIF0 = 0
    /\ current_adcBuffer[0] = 3500
    /\ current_adcBuffer[199] = 4095 - 595

\* C4: a completion whose interrupt runs after the pass has read batch_ready
\* is not lost: batch_ready is set when that pass ends.
C4_NoCompletionLost ==
    [][ (pcCur = "clr" /\ pcCur' = "idle" /\ tcSinceRead) =>
            current_adcAverageReady' = 1 ]_vars

----------------------------------------------------------------------------
(* Claims about the encoder (SpecEnc, SpecRpm) *)

\* the difference d of two 16-bit counts, modulo 2^16, as a signed value in (-32768, 32768]
SignedFold(d) == LET m == d % 65536 IN IF m > 32768 THEN m - 65536 ELSE m

\* C5: every encoder_update adds to the total the hardware delta
\* current_hw - last_hw folded into (-32768, 32768] and stores current_hw as
\* the new last_hw (65530 -> 65534 -> 2 -> 6 adds +4 each time).
C5_SignedFoldedDelta ==
    [][ (pcEnc = "write" /\ pcEnc' = "idle") =>
            /\ TotalCount' - encLoaded = SignedFold(encCur - LastHwCount)
            /\ LastHwCount' = encCur ]_vars

\* C6: with the update interrupt served and encoder_update run after the
\* shaft has stopped, the total equals the true net number of counts turned,
\* whatever wraps of the hardware counter happened on the way (the shaft never
\* turning half a lap or more between two reads).
C6_WrapCountedOnce ==
    (pcEnc = "idle" /\ TIM_UIF = 0 /\ shaftAtRead = shaftPos /\ shaftPos # 0
       /\ LastHwCount = TIM_CNT /\ ~overRange)
        => TotalCount = shaftPos

\* C7: the store that ends the read-modify-write of encoder_update adds the
\* foreground delta to the total as it stands then, so a compensation applied
\* by the update interrupt since the load is kept.
C7_NoLostUpdate ==
    [][ (pcEnc = "write" /\ pcEnc' = "idle") => TotalCount' = TotalCount + encDiff ]_vars

\* speed a recomputing call must return: the quotient truncated toward zero
IsTruncatedQuotient(q, a, b) ==
    LET absq == IF q >= 0 THEN q ELSE -q
        absa == IF a >= 0 THEN a ELSE -a
    IN /\ (a >= 0 => q >= 0)
       /\ (a <= 0 => q <= 0)
       /\ absq * b <= absa
       /\ absa < (absq + 1) * b

\* C8: with cpr = 0 a call returns 0 and leaves the handle alone; otherwise the
\* first call after init seeds last_tick_ms and last_total and returns 0, a
\* later call with now = last_tick_ms returns the cached speed and keeps both,
\* and a later call with another now recomputes the speed and sets
\* last_total = total, last_tick_ms = now.
C8_RpmProtocol ==
    [][ (rpmCalls' = rpmCalls + 1) =>
          IF CountsPerRevolution = 0
          THEN /\ rpmRet' = 0
               /\ UNCHANGED <<TotalCount, LastCount, LastHwCount, Speed, LastTimeMs>>
          ELSE IF rpmCalls = 0
          THEN /\ LastTimeMs' = rpmNow'
               /\ LastCount' = TotalCount'
               /\ rpmRet' = 0
          ELSE IF rpmNow' = LastTimeMs
          THEN /\ rpmRet' = Speed
               /\ UNCHANGED <<LastCount, LastTimeMs>>
          ELSE /\ LastCount' = TotalCount'
               /\ LastTimeMs' = rpmNow'
               /\ rpmRet' = Speed'
               /\ LET dt == U32Sub(rpmNow', LastTimeMs)
                  IN dt[1] = 0 =>
                       IsTruncatedQuotient(Speed', (TotalCount' - LastCount) * 60000,
                                           CountsPerRevolution * dt[2])
      ]_vars

\* C9: a call that does not seed and sees dt = now - last_tick_ms (mod 2^32)
\* greater than 0 returns (total - last_total) * 60000 / (cpr * dt), truncated
\* toward zero and carrying the sign of the count change; cpr = 1000 and 500
\* counts in 100 ms give 300.
C9_RpmQuotient ==
    [][ (rpmCalls' = rpmCalls + 1 /\ CountsPerRevolution # 0 /\ LastTimeMs # <<0, 0>>
           /\ rpmNow' # LastTimeMs) =>
          LET dt == U32Sub(rpmNow', LastTimeMs)
              delta == TotalCount' - LastCount
          IN /\ rpmRet' = Speed'
             /\ dt[1] = 0 =>
                  IsTruncatedQuotient(rpmRet', delta * 60000, CountsPerRevolution * dt[2])
             /\ dt[1] >= 32768 => rpmRet' = 0
             /\ (CountsPerRevolution = 1000 /\ delta = 500 /\ dt = <<0, 100>>) => rpmRet' = 300
      ]_vars

\* 500 counts in 100 ms at cpr = 1000 were reported as 300 rpm
C9_Witness ==
    /\ CountsPerRevolution = 1000
    /\ rpmCalls = 2
    /\ TotalCount = 500
    /\ LastCount = 500
    /\ rpmRet = 300
    /\ Speed = 300

----------------------------------------------------------------------------
(* Claims about the buttons (SpecBtn) *)

\* C10: a scan that leaves four active samples in the low nibble of the shift
\* register while the committed state is released commits the press, so that
\* button_is_pressed returns 1 from that scan on and the press latch is set;
\* button_pressed returns the latch and clears it, and the latch is set by
\* nothing but such a commit: one press event is returned once, every
\* following call returns 0 until a new released-to-pressed commit.
C10_PressCommittedAndTakenOnce ==
    [][ \A b \in Buttons :
          LET call(fn) == btnSeq' # btnSeq /\ btnOp'.fn = fn /\ btnOp'.b = b
          IN /\ (call("button_check_optimized")
                   /\ btn'[b].debounce_shift_reg % 16 = 15 /\ btn[b].current_state = 0)
                  => /\ btn'[b].current_state = 1
                     /\ button_is_pressed(btn'[b]) = 1
                     /\ btn'[b].press_event = 1
             /\ call("button_is_pressed")
                  => /\ btnOp'.val = btn[b].current_state
                     /\ btn' = btn
             /\ call("button_pressed")
                  => /\ btnOp'.val = btn[b].press_event
                     /\ btn'[b].press_event = 0
                     /\ btn'[b].current_state = btn[b].current_state
             /\ (btn[b].press_event = 0 /\ btn'[b].press_event = 1)
                  => /\ call("button_check_optimized")
                     /\ btn[b].current_state = 0
                     /\ btn'[b].current_state = 1
                     /\ btn'[b].debounce_shift_reg % 16 = 15
      ]_vars

\* ENTER was held for four scans, the press event has been taken and a second
\* button_pressed call returned 0 while the button is still held
C10_Witness ==
    /\ btn["enter"].debounce_shift_reg = 31
    /\ btn["enter"].current_state = 1
    /\ btn["enter"].press_event = 0
    /\ btnOp = [fn |-> "button_pressed", b |-> "enter", val |-> 0]

\* C11: the press latch rises exactly on the scans that commit released to
\* pressed; a scan of a button already pressed, or one that commits pressed to
\* released, leaves the latch as it is (no auto-repeat); a set latch stays set
\* through everything but a button_pressed call on that button, which returns 1
\* and clears it.
C11_LatchEdgeTriggered ==
    [][ \A b \in Buttons :
          LET call(fn) == btnSeq' # btnSeq /\ btnOp'.fn = fn /\ btnOp'.b = b
              commit == btn[b].current_state = 0 /\ btn'[b].current_state = 1
          IN /\ commit => btn'[b].press_event = 1
             /\ (btn[b].press_event = 0 /\ btn'[b].press_event = 1) => commit
             /\ (call("button_check_optimized") /\ btn[b].current_state = 1)
                  => btn'[b].press_event = btn[b].press_event
             /\ (btn[b].current_state = 1 /\ btn'[b].current_state = 0)
                  => btn'[b].press_event = btn[b].press_event
             /\ (btn[b].press_event = 1 /\ btn'[b].press_event = 0)
                  => call("button_pressed") /\ btnOp'.val = 1
             /\ (btn[b].press_event = 1 /\ call("button_pressed"))
                  => btnOp'.val = 1 /\ btn'[b].press_event = 0
      ]_vars

\* ENTER has been held for eight scans, its one press event was taken, and the
\* latest scan of the held button has not set the latch again
C11_Witness ==
    /\ btn["enter"].debounce_shift_reg = 255
    /\ btn["enter"].current_state = 1
    /\ btn["enter"].press_event = 0
    /\ btnOp = [fn |-> "button_check_optimized", b |-> "enter", val |-> 1]

\* C12: a scan shifts the raw sample into the register; if the resulting low
\* nibble is neither 1111 nor 0000 the committed state, the previous state and
\* the press latch keep their values; the committed state goes to pressed only
\* on 1111 and to released only on 0000, that is never on fewer than four equal
\* samples in a row.
C12_BouncingKeepsState ==
    [][ \A b \in Buttons :
          LET scan == btnSeq' # btnSeq /\ btnOp'.fn = "button_check_optimized" /\ btnOp'.b = b
              nibble == btn'[b].debounce_shift_reg % 16
          IN /\ scan => btn'[b].debounce_shift_reg
                          = (btn[b].debounce_shift_reg * 2 + btnOp'.val) % 256
             /\ (scan /\ nibble # 15 /\ nibble # 0)
                  => /\ btn'[b].current_state = btn[b].current_state
                     /\ btn'[b].last_state = btn[b].last_state
                     /\ btn'[b].press_event = btn[b].press_event
             /\ (btn[b].current_state = 0 /\ btn'[b].current_state = 1) => scan /\ nibble = 15
             /\ (btn[b].current_state = 1 /\ btn'[b].current_state = 0) => scan /\ nibble = 0
             /\ (scan /\ nibble = 15) => btn'[b].current_state = 1
             /\ (scan /\ nibble = 0) => btn'[b].current_state = 0
      ]_vars

\* the contact bounced while ENTER was committed pressed (samples 1,0,1,0) and
\* the scan left it pressed
C12_Witness ==
    /\ btn["enter"].debounce_shift_reg % 16 = 10
    /\ btn["enter"].current_state = 1
    /\ btnOp = [fn |-> "button_check_optimized", b |-> "enter", val |-> 0]

\* the committed state after the samples taken so far, pressed from sample
\* number from up to sample number upto
PressedDuring(from, upto) ==
    /\ nScans < from => btn[ScenarioButton].current_state = 0
    /\ (nScans >= from /\ nScans <= upto) => btn[ScenarioButton].current_state = 1
    /\ nScans > upto => btn[ScenarioButton].current_state = 0

\* C13 as stated: in the scenario 0,1,0,1,1,1,1,0,0,0,0 the button is pressed
\* from sample 6 on and released again on sample 11; the eleven samples are
\* numbered from one, sample 11 being the last.
C13_ScenarioAsStated == PressedDuring(6, 10)

\* C13, amended: numbering the samples from one, is_pressed becomes true on
\* sample 7 (the fourth 1 in a row) and false again on sample 11; the latch
\* is set once, by sample 7, and button_pressed returns 1 once, after it.
C13_ScenarioSeventhSample ==
    [][ LET b == ScenarioButton
        IN /\ PressedDuring(7, 10)'
           /\ button_is_pressed(btn[b])' = (IF nScans' \in 7..10 THEN 1 ELSE 0)
           /\ (btn[b].press_event = 0 /\ btn'[b].press_event = 1) => nScans' = 7
           /\ nScans' < 7 => btn'[b].press_event = 0
           /\ (btnSeq' # btnSeq /\ btnOp'.fn = "button_pressed")
                => /\ btnOp'.val = btn[b].press_event
                   /\ btn'[b].press_event = 0
                   /\ btnOp'.val = 1 => nScans >= 7
      ]_vars

\* all eleven samples taken: the button is released again, its one press event
\* was taken and a further button_pressed call returned 0
C13_Witness ==
    /\ nScans = 11
    /\ btn["enter"].debounce_shift_reg = 240
    /\ btn["enter"].current_state = 0
    /\ btn["enter"].last_state = 1
    /\ btn["enter"].press_event = 0
    /\ btnOp = [fn |-> "button_pressed", b |-> "enter", val |-> 0]

----------------------------------------------------------------------------
(* Claims about the software timers (SpecTimer, SpecDelay) *)

\* C14: a timer is created stopped and stays disabled until
\* systick_timer_start; systick_timer_expired on a disabled timer returns 0 and
\* changes nothing; on a started one-shot timer it returns 0 while fewer than
\* interval ticks have passed since the start and, on the first call after
\* that, returns 1 and disables the timer, which only a new start enables.
C14_OneShotLifecycle ==
    [][ LET returns == tmrSeq' # tmrSeq
            passed == nTicks - tmrRef
        IN /\ tmrRef = -1 => tmr.enabled = 0
           /\ tmrRef' = -1 => tmr'.enabled = 0
           /\ (returns /\ tmr.enabled = 0) => (tmrRet' = 0 /\ tmr' = tmr)
           /\ (returns /\ tmr.enabled = 1 /\ tmr.auto_reload = 0)
                => IF passed >= tmr.interval[2]
                   THEN tmrRet' = 1 /\ tmr'.enabled = 0
                   ELSE tmrRet' = 0 /\ tmr' = tmr
           /\ (tmr.enabled = 0 /\ tmr'.enabled = 1)
                => (~returns /\ tmr'.start_time = system_tick_ms /\ tmrRef' = nTicks)
      ]_vars

\* a one-shot timer of 3 ms was started, reported its expiry (which disabled
\* it) and a later call returned 0
C14_Witness ==
    /\ tmr.auto_reload = 0
    /\ tmr.interval = U32Of(3)
    /\ tmr.enabled = 0
    /\ tmrRef >= 3
    /\ nTicks > tmrRef
    /\ tmrRet = 0

\* C15: an auto-reload timer, once started, stays enabled; a call of
\* systick_timer_expired made interval ticks or more after the start or after
\* the previous call that returned 1 returns 1 and restarts the timer at the
\* current tick, a call made earlier returns 0, so two calls returning 1 are at
\* least interval ticks apart; the tick counter may wrap in between.
C15_AutoReload ==
    [][ tmr.auto_reload = 1 =>
          LET passed == nTicks - tmrRef
              due == passed >= tmr.interval[2]
              polls == tmrPc = "idle" /\ (tmrSeq' # tmrSeq \/ tmrPc' = "reload")
          IN /\ tmr.enabled = 1 => tmr'.enabled = 1
             /\ (polls /\ tmr.enabled = 1 /\ due) => tmrPc' = "reload"
             /\ (polls /\ tmr.enabled = 1 /\ ~due) => (tmrSeq' # tmrSeq /\ tmrRet' = 0 /\ tmr' = tmr)
             /\ tmrPc = "reload"
                  => (tmrSeq' # tmrSeq
                        => /\ tmrRet' = 1
                           /\ tmr'.start_time = system_tick_ms
                           /\ tmrRef' = nTicks)
             /\ (tmrSeq' # tmrSeq /\ tmrRet' = 1) => (tmrRef >= 0 /\ due)
      ]_vars

\* an auto-reload timer of 3 ms started at tick 2^32 - 2 reported its expiry
\* at tick 1, after the counter wrapped
C15_Witness ==
    /\ tmr.auto_reload = 1
    /\ tmr.interval = U32Of(3)
    /\ tmr.enabled = 1
    /\ tmr.start_time = U32Of(1)
    /\ system_tick_ms = U32Of(1)
    /\ nTicks = 3
    /\ tmrRef = 3
    /\ tmrRet = 1

\* a pair of 16-bit limbs
IsU32(x) == x[1] \in 0..(U16 - 1) /\ x[2] \in 0..(U16 - 1)

\* C16: systick_elapsed_ms(since) returns the 32-bit value r with
\* since + r = now modulo 2^32, now being the tick at the call; systick_delay_ms(n)
\* returns only when at least n ticks have passed since it was entered, and it
\* does return while the tick interrupt keeps firing.
C16_ElapsedAndDelay ==
    /\ [][ /\ IsU32(elRet')
           /\ U32Add(elSince', elRet') = elNow'
           /\ (elRet' # elRet \/ elNow' # elNow \/ elSince' # elSince) => elNow' = system_tick_ms
           /\ (dlyPc = "wait" /\ dlyPc' = "idle") => nTicks - dlyRef >= dlyN
         ]_vars
    /\ ((dlyPc = "wait") ~> (dlyPc = "idle"))

\* systick_elapsed_ms(2^32 - 3) returned 4 at tick 1, and a systick_delay_ms(3)
\* entered at tick 2^32 - 2 has returned
C16_Witness ==
    /\ elSince = <<U16 - 1, U16 - 3>>
    /\ elNow = U32Of(1)
    /\ elRet = U32Of(4)
    /\ dlyStart = <<U16 - 1, U16 - 2>>
    /\ dlyN = 3
    /\ dlyPc = "idle"
    /\ nTicks >= 3

----------------------------------------------------------------------------
(* Claims about the menu engine (SpecNav, SpecUi) *)

\* a tick of the periodic interrupt
IsTick == uiSeq' # uiSeq

\* the move a tick is asked for by what it samples: the encoder counts, one back for
\* an Up release or an Up auto-repeat, one forward for a Down release or auto-repeat
RequestedMove ==
    encoderCount
    - (IF (OLED_UI_Key.Up = 0 /\ keyPin.Up = 1) \/ keyHold'.Up.TapAndHold THEN 1 ELSE 0)
    + (IF (OLED_UI_Key.Down = 0 /\ keyPin.Down = 1) \/ keyHold'.Down.TapAndHold THEN 1 ELSE 0)

\* C17: on every page the active index stays within [0, N-1] whatever the up, down,
\* auto-repeat and encoder inputs; a move past the last item lands on item 0 and a
\* move before item 0 lands on item N-1, any other move lands where it was asked to
C17_ActiveIndexWraps ==
    /\ [](\A p \in Pages : menu[p]._ActiveMenuID \in 0..(GetMenuItemNum(p) - 1))
    /\ [][IsTick =>
            LET N == Len(MenuPages[CurrentMenuPage].General_MenuItems)
                asked == menu[CurrentMenuPage]._ActiveMenuID + RequestedMove
                active == menu'[CurrentMenuPage]._ActiveMenuID
            IN  /\ asked > N - 1 => active = 0
                /\ asked < 0 => active = N - 1
                /\ asked \in 0..(N - 1) => active = asked]_vars

\* an Up step from item 0 of the three tiles has just wrapped to the last tile
C17_Witness ==
    /\ CurrentMenuPage = "TilesPage"
    /\ IncreaseID = [Unsafe |-> -1, Safe |-> 2]
    /\ menu["TilesPage"]._ActiveMenuID = 2

\* rows a LIST page shows at once, and the height of one row
VisibleSlots(p) ==
    (MenuPages[p].List_MenuArea.Height - MenuPages[p].List_StartPointY
        + MenuPages[p].General_LineSpace - 1)
    \div (MenuPages[p].General_LineSpace + MenuPages[p].General_FontSize)

Pitch(p) == MenuPages[p].General_LineSpace + MenuPages[p].General_FontSize

\* active index, slot and start-point translation in rows along the DOWN presses of the scenario
DownPath ==
    << [active |-> 0, slot |-> 0, rows |-> 0],
       [active |-> 1, slot |-> 1, rows |-> 0],
       [active |-> 2, slot |-> 2, rows |-> 0],
       [active |-> 3, slot |-> 2, rows |-> -1],
       [active |-> 4, slot |-> 2, rows |-> -2] >>

\* the root page stands at the given point of the scenario
OnDownPath(i, m, pt) ==
    /\ m["MainMenuPage"]._ActiveMenuID = DownPath[i].active
    /\ m["MainMenuPage"]._Slot = DownPath[i].slot
    /\ pt.Y = MenuPages["MainMenuPage"].List_MenuArea.Y + MenuPages["MainMenuPage"].List_StartPointY
                + DownPath[i].rows * Pitch("MainMenuPage")

\* the tick samples a released Down key that was pressed, and nothing else
DownPress ==
    /\ OLED_UI_Key.Down = 0 /\ keyPin.Down = 1
    /\ OLED_UI_Key.Up = 1 /\ keyPin.Up = 1
    /\ encoderCount = 0

\* C18: on the root LIST page (5 items, 3 slots) starting at active 0, slot 0, four
\* DOWN presses visit active 1,2,3,4 and slot 1,2,2,2 with the start-point target moved
\* by 0, 0, -pitch, -2*pitch, and a fifth wraps to active 0, slot 0 at the initial target;
\* on any LIST page a single step that does not wrap moves the slot when it is not
\* pinned at the top or bottom slot and otherwise scrolls the target by one row
C18_SlotThenScroll ==
    /\ [][(IsTick /\ CurrentMenuPage = "MainMenuPage" /\ DownPress) =>
            \A i \in 1..5 :
                OnDownPath(i, menu, OLED_UI_PageStartPoint)
                    => OnDownPath((i % 5) + 1, menu', OLED_UI_PageStartPoint')]_vars
    /\ [][(IsTick /\ MenuPages[CurrentMenuPage].General_MenuType = MENU_TYPE_LIST) =>
            LET p == CurrentMenuPage
                N == Len(MenuPages[p].General_MenuItems)
                active == menu[p]._ActiveMenuID
                slot == menu[p]._Slot
                Y == OLED_UI_PageStartPoint.Y
            IN  /\ (RequestedMove = 1 /\ active < N - 1) =>
                      IF slot < VisibleSlots(p) - 1
                      THEN menu'[p]._Slot = slot + 1 /\ OLED_UI_PageStartPoint'.Y = Y
                      ELSE menu'[p]._Slot = slot /\ OLED_UI_PageStartPoint'.Y = Y - Pitch(p)
                /\ (RequestedMove = -1 /\ active > 0) =>
                      IF slot > 0
                      THEN menu'[p]._Slot = slot - 1 /\ OLED_UI_PageStartPoint'.Y = Y
                      ELSE menu'[p]._Slot = slot /\ OLED_UI_PageStartPoint'.Y = Y + Pitch(p)]_vars

\* the fifth DOWN press has wrapped the root page of 5 items and 3 slots back to its start
C18_Witness ==
    /\ CurrentMenuPage = "MainMenuPage"
    /\ GetMenuItemNum("MainMenuPage") = 5
    /\ VisibleSlots("MainMenuPage") = 3
    /\ IncreaseID = [Unsafe |-> 1, Safe |-> -4]
    /\ OLED_UI_LastKey.Down = 0 /\ OLED_UI_Key.Down = 1
    /\ OnDownPath(1, menu, OLED_UI_PageStartPoint)

\* C19: the callback-running flag and the fade flag are never both set
C19_FlagsMutuallyExclusive == ~(KeyEnterFlag # FLAGEND /\ FadeOutFlag # FLAGEND)

\* C20: a tick taken while the callback-running flag or the fade flag is set still
\* records the key levels (current becomes previous, the pins become current) and
\* dispatches nothing
C20_GatedTickStillScans ==
    [][(IsTick /\ (KeyEnterFlag # FLAGEND \/ FadeOutFlag # FLAGEND)) =>
          /\ OLED_UI_LastKey' = OLED_UI_Key
          /\ OLED_UI_Key' = keyPin
          /\ UNCHANGED <<KeyEnterFlag, FadeOutFlag, CurrentMenuPage, menu,
                         OLED_UI_PageStartPoint, windowData, radioBox>>]_vars

\* C21: in every reachable state in which the callback flag or the fade flag is
\* set the encoder counter is disabled (the first sentence of the claim; the
\* encoder is enabled by the foreground without looking at the flags)
C21_EncoderOffWhileFlagged ==
    (KeyEnterFlag # FLAGEND \/ FadeOutFlag # FLAGEND) => ~encoderEnabled

\* a tick that passes the gate and sees Enter (Back) released after pressed
EnterReleased ==
    IsTick /\ GetEnterFlag /\ GetFadeoutFlag /\ OLED_UI_Key.Enter = 0 /\ keyPin.Enter = 1

BackReleased ==
    IsTick /\ GetEnterFlag /\ GetFadeoutFlag /\ OLED_UI_Key.Back = 0 /\ keyPin.Back = 1

\* the item the Enter branch of a tick acts on: the active item after the tick's move
DispatchItem == ActiveItem(CurrentMenuPage, menu'[CurrentMenuPage])

WindowOnDisplay == OLED_SustainCounter.SustainFlag

\* the foreground calls the callback of the active item
CallbackInvoked == uiPc = "callback" /\ uiPc' = "callbackReturned"

\* C22: Enter on an item with a callback and no sub-page sets the callback flag
\* in the periodic interrupt, and only such an Enter sets it; the callback is
\* invoked by the main loop, never by a tick, only while the flag is set, and
\* the flag is cleared only after the callback has returned, so once per
\* dispatch; while the flag is set the page and its active index stay what
\* they were at the dispatch; every dispatch is followed by the flag cleared
C22_CallbackOnceInForeground ==
    /\ [](uiPc \in {"callback", "callbackReturned"} => KeyEnterFlag = FLAGSTART)
    /\ [][/\ (EnterReleased /\ ~WindowOnDisplay /\ DispatchItem.General_callback # NULL
                   /\ DispatchItem.General_SubMenuPage = NULL)
               <=> (KeyEnterFlag = FLAGEND /\ KeyEnterFlag' = FLAGSTART)
          /\ (IsTick => (~CallbackInvoked /\ uiPc' = uiPc))
          /\ (CallbackInvoked => (KeyEnterFlag = FLAGSTART /\ KeyEnterFlag' = FLAGSTART))
          /\ ((KeyEnterFlag = FLAGSTART /\ KeyEnterFlag' = FLAGEND)
               => (uiPc = "callbackReturned" /\ ~IsTick))
          /\ ((KeyEnterFlag = FLAGSTART /\ KeyEnterFlag' = FLAGSTART)
               => (/\ CurrentMenuPage' = CurrentMenuPage
                   /\ menu'[CurrentMenuPage]._ActiveMenuID = menu[CurrentMenuPage]._ActiveMenuID))
          ]_vars
    /\ (KeyEnterFlag = FLAGSTART) ~> (KeyEnterFlag = FLAGEND)

\* the callback that opens the value window has run and has not returned yet
C22_Witness ==
    /\ uiPc = "callbackReturned"
    /\ KeyEnterFlag = FLAGSTART
    /\ CurrentWindow = "ValueWindow"
    /\ OLED_SustainCounter.SustainFlag

\* C23: Enter dispatch by payload: a sub-page and no callback begins the enter
\* fade; neither a callback nor a sub-page but a radio-bool toggles the bool;
\* both a callback and a sub-page set no flag and toggle no bool; a radio-bool
\* is toggled only by Enter on an item with neither a callback nor a sub-page
C23_EnterByPayload ==
    [][/\ (EnterReleased /\ ~WindowOnDisplay)
            => LET callback == DispatchItem.General_callback # NULL
                   sub == DispatchItem.General_SubMenuPage # NULL
                   radio == DispatchItem.List_BoolRadioBox
               IN  /\ (sub /\ ~callback) => FadeOutFlag' = ENTER_FLAGSTART
                   /\ (~sub /\ ~callback /\ radio # NULL)
                        => radioBox' = [radioBox EXCEPT ![radio] = ~@]
                   /\ (sub /\ callback)
                        => (KeyEnterFlag' = FLAGEND /\ FadeOutFlag' # ENTER_FLAGSTART
                            /\ radioBox' = radioBox)
       /\ (radioBox' # radioBox)
            => (/\ EnterReleased /\ ~WindowOnDisplay
                /\ DispatchItem.General_callback = NULL
                /\ DispatchItem.General_SubMenuPage = NULL)
      ]_vars

\* C24 as stated: a tick that sees Enter released while a window is on display
\* clears the window-active flag in that tick
C24_EnterClosesWindow ==
    [][(EnterReleased /\ WindowOnDisplay) => ~OLED_SustainCounter'.SustainFlag]_vars

\* C25: a tick that sees Back released while a window is on display sets no
\* flag and moves no page, it puts the window counter on its threshold (the
\* window goes in that tick unless Enter is released in it too); with no window
\* on display the back fade begins if and only if the page has a parent, and on
\* the root page flags, encoder gate, page, radio-bools and window are left as
\* they were (Enter not being released in the same tick)
C25_BackDispatch ==
    [][/\ (BackReleased /\ WindowOnDisplay)
            => /\ UNCHANGED <<KeyEnterFlag, FadeOutFlag, encoderEnabled, uiPageVars, radioBox>>
               /\ ~(OLED_UI_Key.Enter = 0 /\ keyPin.Enter = 1)
                    => OLED_SustainCounter' = [SustainFlag |-> FALSE, count |-> 0]
       /\ (BackReleased /\ ~WindowOnDisplay /\ ~(OLED_UI_Key.Enter = 0 /\ keyPin.Enter = 1))
            => IF MenuPages[CurrentMenuPage].General_ParentMenuPage # NULL
               THEN FadeOutFlag' = BACK_FLAGSTART /\ ~encoderEnabled'
               ELSE UNCHANGED <<KeyEnterFlag, FadeOutFlag, encoderEnabled, uiPageVars,
                                radioBox, OLED_SustainCounter, CurrentWindow,
                                OLED_UI_Window, windowData, uiFadeVars>>
       /\ (FadeOutFlag # BACK_FLAGSTART /\ FadeOutFlag' = BACK_FLAGSTART)
            => (/\ BackReleased /\ ~WindowOnDisplay
                /\ MenuPages[CurrentMenuPage].General_ParentMenuPage # NULL)
      ]_vars

\* Back has just been released on the child page and the back fade is requested
C25_Witness ==
    /\ CurrentMenuPage = "SettingsPage"
    /\ OLED_UI_LastKey.Back = 0 /\ OLED_UI_Key.Back = 1
    /\ FadeOutFlag = BACK_FLAGSTART
    /\ FadeOut_Seq = 0

\* a tick without user input: it is gated, or it sees neither Back nor Enter
\* released and no motion of the encoder or of Up and Down
IdleTick ==
    /\ IsTick
    /\ \/ ~(GetEnterFlag /\ GetFadeoutFlag)
       \/ /\ ~(OLED_UI_Key.Enter = 0 /\ keyPin.Enter = 1)
          /\ ~(OLED_UI_Key.Back = 0 /\ keyPin.Back = 1)
          /\ IncreaseID'.Unsafe = 0

\* C26: OLED_UI_CreateWindow sets the window-active flag, the counter to 0,
\* the window pointer and the centred target; while the flag is set the
\* counter is below continue_time * 50; a tick without user input, gated or
\* not, counts once and clears the flag exactly when the count reaches
\* continue_time * 50, the counter being 0 again; the flag is cleared by
\* nothing but a tick; the main loop then puts the window target off screen
C26_WindowTimeout ==
    /\ [](IF OLED_SustainCounter.SustainFlag
          THEN /\ CurrentWindow # NULL
               /\ OLED_SustainCounter.count < MenuWindows[CurrentWindow].ContinueTicks
          ELSE OLED_SustainCounter.count = 0)
    /\ [][/\ (~WindowOnDisplay /\ OLED_SustainCounter'.SustainFlag)
               => (/\ CallbackInvoked
                   /\ OLED_SustainCounter'.count = 0
                   /\ CurrentWindow' # NULL
                   /\ OLED_UI_Window'.TargetArea = WindowCentred(CurrentWindow'))
          /\ (IdleTick /\ WindowOnDisplay)
               => (OLED_SustainCounter' =
                      IF OLED_SustainCounter.count + 1 = MenuWindows[CurrentWindow].ContinueTicks
                      THEN [SustainFlag |-> FALSE, count |-> 0]
                      ELSE [SustainFlag |-> TRUE, count |-> OLED_SustainCounter.count + 1])
          /\ ((WindowOnDisplay /\ ~OLED_SustainCounter'.SustainFlag) => IsTick)
          /\ ((uiPc = "loop" /\ uiPc' = "check" /\ ~WindowOnDisplay)
               => (OLED_UI_Window'.TargetArea = WindowOffScreen))
          ]_vars
    /\ (~OLED_SustainCounter.SustainFlag)
            ~> (OLED_SustainCounter.SustainFlag \/ OLED_UI_Window.TargetArea = WindowOffScreen)

\* the window opened by the running callback has timed out on gated ticks alone
C26_Witness ==
    /\ uiPc = "callbackReturned"
    /\ KeyEnterFlag = FLAGSTART
    /\ CurrentWindow = "ValueWindow"
    /\ OLED_UI_Window.TargetArea = WindowCentred("ValueWindow")
    /\ OLED_SustainCounter = [SustainFlag |-> FALSE, count |-> 0]

\* a tick that passes the gate while a window with an int or float box is on
\* display and sees a motion of the encoder or of Up and Down
WindowInput ==
    /\ IsTick /\ GetEnterFlag /\ GetFadeoutFlag
    /\ WindowOnDisplay
    /\ GetWindowDataStyle(CurrentWindow) # WINDOW_DATA_STYLE_NONE
    /\ IncreaseID'.Unsafe # 0

\* the value of a window's box as a float
BoxValue(window, v) ==
    IF GetWindowDataStyle(window) = WINDOW_DATA_STYLE_INT THEN FloatOfInt(v) ELSE v

\* value + delta * step held to [min, max]
ClampedSum(window, value, delta) ==
    LET stepped == value + delta * MenuWindows[window].Prob_DataStep
    IN  IF stepped < MenuWindows[window].Prob_MinData THEN MenuWindows[window].Prob_MinData
        ELSE IF stepped > MenuWindows[window].Prob_MaxData THEN MenuWindows[window].Prob_MaxData
        ELSE stepped

\* C27: while a window with an int or float box is on display, a tick with a
\* non-zero delta leaves the bound value at value + delta * step held to
\* [min, max], inside [min, max], and puts the counter back (it counts 1 in the
\* same tick unless Back is released); as long as the window-active flag is
\* set no tick changes the active index, the slot or the start point
C27_WindowEdit ==
    [][/\ WindowInput
            => /\ BoxValue(CurrentWindow, windowData'[CurrentWindow])
                    = ClampedSum(CurrentWindow, BoxValue(CurrentWindow, windowData[CurrentWindow]),
                                 IncreaseID'.Unsafe)
               /\ OLED_SustainCounter'.count = 1
       /\ (IsTick /\ WindowOnDisplay) => UNCHANGED <<menu, OLED_UI_PageStartPoint>>
      ]_vars

\* C28: an int box takes +step in one tick and -step in the next, neither sum
\* leaving [min, max]: the value is what it was before the two ticks
C28_StepRoundTrip ==
    [][(/\ WindowInput
        /\ GetWindowDataStyle(CurrentWindow) = WINDOW_DATA_STYLE_INT
        /\ lastEdit.window /\ lastEdit.delta = 1
        /\ IncreaseID'.Unsafe = -1
        /\ FloatOfInt(lastEdit.before) + MenuWindows[CurrentWindow].Prob_DataStep
                <= MenuWindows[CurrentWindow].Prob_MaxData
        /\ FloatOfInt(windowData[CurrentWindow]) - MenuWindows[CurrentWindow].Prob_DataStep
                >= MenuWindows[CurrentWindow].Prob_MinData)
        => windowData'[CurrentWindow] = lastEdit.before
      ]_vars

\* step 6 of RunFadeOut switching the page for the fade that `flag` asked for
PageSwitch(flag) == uiPc = "fade" /\ uiPc' = "fadeEnd" /\ FadeOutFlag = flag

\* C29: the page switch that enters a sub-page leaves the child's active index
\* and slot at 0, whatever an earlier visit left there; the page switch that
\* returns from it puts back the page pointer, the start-point target, the line
\* step and the parent's active index as they were when the child was entered.
C29_SubmenuRoundTrip ==
    [][ /\ (PageSwitch(ENTER_FLAGSTART) =>
              (/\ CurrentMenuPage' = ActiveItem(CurrentMenuPage, menu[CurrentMenuPage]).General_SubMenuPage
               /\ menu'[CurrentMenuPage']._ActiveMenuID = 0
               /\ menu'[CurrentMenuPage']._Slot = 0))
        /\ (PageSwitch(BACK_FLAGSTART) =>
              (/\ preEnter.page # NULL
               /\ CurrentMenuPage' = preEnter.page
               /\ OLED_UI_PageStartPoint' = preEnter.pt
               /\ OLED_UI_LineStep' = preEnter.step
               /\ menu'[preEnter.page]._ActiveMenuID = preEnter.active)) ]_vars

\* the root page is back on display after a visit to the tiles page from its
\* last item, with the list scrolled; the tiles page's cursor, left on its last
\* tile by an earlier visit, was put back on the first one
C29_Witness ==
    /\ uiPc = "fadeEnd"
    /\ CurrentMenuPage = "MainMenuPage"
    /\ preEnter.page = "MainMenuPage"
    /\ preEnter.active = 4
    /\ menu["MainMenuPage"]._ActiveMenuID = 4
    /\ OLED_UI_PageStartPoint = preEnter.pt
    /\ OLED_UI_PageStartPoint.Y < PageInitPoint("MainMenuPage").Y
    /\ OLED_UI_LineStep.TargetDistance = MenuPages["MainMenuPage"].General_LineSpace
    /\ menu["SettingsPage"]._ActiveMenuID = 1
    /\ menu["TilesPage"]._ActiveMenuID = 0

\* C30: a fade draws the mask at levels 1, 2, 3, 4, 5 in that order, one level
\* after the other and a new level only once FADEOUT_TIME has run out on the one
\* before, and the page is switched only after level 5 has been drawn.
C30_FadeSequencing ==
    [][ /\ (fadeMask' # fadeMask => (fadeMask' = 0 \/ fadeMask' = fadeMask + 1))
        /\ ((fadeMask' # fadeMask /\ fadeMask' > 1) => sinceFadeStep > FADEOUT_TIME)
        /\ (PageSwitch(ENTER_FLAGSTART) \/ PageSwitch(BACK_FLAGSTART) =>
              fadeMask = FADEOUT_LAST_SEQ - 1) ]_vars

\* C31: once a fade flag is set it is cleared by the page switch only and keeps
\* its direction; until then no step changes the current page, an active index,
\* a slot or a radio-bool; the item an enter-fade switches on has a sub-page.
C31_FadeNotCancellable ==
    [][ /\ ((FadeOutFlag # FLAGEND /\ FadeOutFlag' # FadeOutFlag) =>
              (FadeOutFlag' = FLAGEND /\ PageSwitch(FadeOutFlag)))
        /\ ((FadeOutFlag # FLAGEND /\ ~PageSwitch(FadeOutFlag)) =>
              (/\ CurrentMenuPage' = CurrentMenuPage
               /\ \A p \in Pages : /\ menu'[p]._ActiveMenuID = menu[p]._ActiveMenuID
                                    /\ menu'[p]._Slot = menu[p]._Slot
               /\ radioBox' = radioBox))
        /\ (PageSwitch(ENTER_FLAGSTART) =>
              ActiveItem(CurrentMenuPage, menu[CurrentMenuPage]).General_SubMenuPage # NULL) ]_vars

\* C32: the interrupt handler sees the fade flag cleared only once the page
\* switch has put the new page in place, and a fade flag it sets before the last
\* statements of the switch have run is still set when the switch finishes.
C32_SwitchAtomic ==
    [][ /\ (PageSwitch(ENTER_FLAGSTART) =>
              (/\ OLED_UI_PageStartPoint' = PageInitPoint(CurrentMenuPage')
               /\ OLED_UI_LineStep'.TargetDistance = MenuPages[CurrentMenuPage'].General_LineSpace
               /\ menu'[CurrentMenuPage']._ActiveMenuID = 0))
        /\ ((uiPc = "fadeEnd" /\ uiPc' = "loop" /\ FadeOutFlag # FLAGEND) =>
              FadeOutFlag' = FadeOutFlag) ]_vars

\* C33: with a speed of 0 or less one update step puts the current value on
\* the target, and under either move style a current value that has reached
\* the target stays on it at every further update step.
C33_AnimationSettles ==
    [][ /\ (anim.General_MovingSpeed <= 0 => anim'.CurrentNum = anim.TargetNum)
        /\ (anim.CurrentNum = anim.TargetNum => anim'.CurrentNum = anim.TargetNum) ]_vars

\* C34: a wait for the stream to be disabled ends after a bounded number of
\* polls, so once that many polls have been made initialisation is no longer
\* waiting; and when the stream is enabled again all its flags are clear.
C34_InitNeverHangs ==
    /\ (dmaStream.polls = MaxPolls => dmaStream.pc \notin {"bsp_wait", "init_wait"})
    /\ (dmaStream.pc = "running" => (dmaStream.flags = {} /\ HTIF0 = 0 /\ TCIF0 = 0))

\* the tick samples key k pressed after the tick before sampled it pressed
HeldOver(k) == OLED_UI_Key[k] = 0 /\ keyPin[k] = 0

\* ticks between two repeat steps once PressCounter held ticks have been counted
RepeatPeriod(PressCounter) ==
    IF PressCounter >= PRESS_TICKS + CONTINUE_PRESS_TICKS
    THEN CONTINUE_PRESS_MOVE_SPEED ELSE PRESS_MOVE_SPEED

C37_ListGeometry ==
    MenuPages[CurrentMenuPage].General_MenuType = MENU_TYPE_LIST =>
        LET p == CurrentMenuPage
            active == menu[p]._ActiveMenuID
            slot == menu[p]._Slot
        IN  /\ slot \in 0..(VisibleSlots(p) - 1)
            /\ slot <= active
            /\ OLED_UI_PageStartPoint.Y = PageInitPoint(p).Y - (active - slot) * Pitch(p)

\* the root page has scrolled by two rows: the last of its five items is
\* active in the last of its three slots
C37_Witness ==
    /\ CurrentMenuPage = "MainMenuPage"
    /\ menu["MainMenuPage"]._ActiveMenuID = 4
    /\ menu["MainMenuPage"]._Slot = 2
    /\ OLED_UI_PageStartPoint.Y = PageInitPoint("MainMenuPage").Y - 2 * Pitch("MainMenuPage")
    /\ IncreaseID.Safe = 1

\* C38: only the first call of encoder_calculate_speed_rpm after encoder_init
\* seeds; every later call, also one after a first call at now = 0 or after a
\* call that stored timestamp 0, keeps last_total when now = last_tick_ms and
\* otherwise returns the recomputed speed.
C38_SeedsOnce ==
    [][ (rpmCalls' = rpmCalls + 1 /\ rpmCalls >= 1 /\ CountsPerRevolution # 0) =>
          IF rpmNow' = LastTimeMs
          THEN LastCount' = LastCount /\ rpmRet' = Speed
          ELSE /\ rpmRet' = Speed'
               /\ LET dt == U32Sub(rpmNow', LastTimeMs)
                  IN dt[1] = 0 =>
                       IsTruncatedQuotient(rpmRet', (TotalCount' - LastCount) * 60000,
                                           CountsPerRevolution * dt[2]) ]_vars

\* SetTargetProbWidth, run by MoveMenuElements in every frame, loads
\* CurrentWindow->Prob_Data_Int and CurrentWindow->Prob_Data_Float as the
\* arguments of GetWindowDataStyle, before the callee tests the pointer
SetTargetProbWidthReadsWindow == uiPc = "loop" /\ uiPc' = "check"

\* a tick that is not gated and finds SustainFlag set loads the same two fields
InterruptHandlerReadsWindow ==
    IsTick /\ GetEnterFlag /\ GetFadeoutFlag /\ OLED_SustainCounter.SustainFlag

\* C39: no step reads a field of the current window while CurrentWindow is
\* NULL: not the interrupt handler that finds the window flag set, and not the
\* progress-bar target update of a frame before a window is created or after
\* it is released.
C39_WindowPointerSafe ==
    [][ (SetTargetProbWidthReadsWindow \/ InterruptHandlerReadsWindow) =>
            CurrentWindow # NULL ]_vars

----------------------------------------------------------------------------
(* Claims about the button manager (SpecMgr) *)

\* the arguments of the pending call are a manager, an array and a count of
\* 1 to 8 whose first count entries are initialised handles
ValidManagerArgs ==
    /\ mgrCall.manager # NULL
    /\ mgrCall.buttons # NULL
    /\ mgrCall.count \in 1..8
    /\ \A i \in 1..mgrCall.count :
         button_array[i] # NULL /\ btn[button_array[i]].initialized = 1

\* the handles the manager holds
RegisteredButtons == {button_array[i] : i \in 1..button_manager.button_count}

\* a step that consumes an expiry of the scan timer
ScanExpiry == TimerIsExpired(scan_timer, system_tick_ms) /\ scan_timer' # scan_timer

\* the shift register after one more raw sample of the pin
OneSample(b) == (btn[b].debounce_shift_reg * 2 + button_read_raw(btn[b], btnPin[b])) % U8

----------------------------------------------------------------------------
(* Claims about the motor-enable pin (SpecMotor) *)

\* C2: motor-enable goes from 0 to 1 only in the ENTER branch of
\* button_handler (a taken ENTER press event toggling motor_running to 1);
\* no protection pass, whatever its average, no timer expiry, no interrupt and
\* no other button raises it, so after a cut-off it stays low until then.
C2_OnlyEnterReenables ==
    [][ (motor_enable = 0 /\ motor_enable' = 1) =>
          /\ motor_running = 0
          /\ motor_running' = 1
          /\ button_pressed(button_check_optimized(btn["enter"], btnPin["enter"])).ret = 1
               \/ button_pressed(btn["enter"]).ret = 1
          /\ btn'["enter"].press_event = 0
          /\ UNCHANGED <<system_tick_ms, current_timer, current_adcBuffer, HTIF0, TCIF0,
                         current_adcAverageReady, sum, current_adcAverage>>
      ]_vars

\* the protection loop has cut the motor (ENTER and RETURN never acted) and the
\* latest pass, over a batch averaging 3300, has left motor-enable low
C2_Witness ==
    /\ motor_enable = 0
    /\ motor_running = 1
    /\ motor_p = 1
    /\ current_adcAverage = 3300
    /\ sum = 3300 * ADC_BUF_LEN
    /\ current_adcAverageReady = 0
    /\ system_tick_ms = U32Of(2)

\* a pass of button_handler that takes a press event of ENTER and none of RETURN
EnterAlone ==
    /\ motor_running' # motor_running
    /\ btn["return"].press_event = 0
    /\ button_check_optimized(btn["return"], btnPin["return"]).press_event = 0

\* C40: the running state kept by the ENTER branch of button_handler equals
\* the level of motor-enable in every state, so with motor-enable low after an
\* overcurrent cut-off or an emergency stop one ENTER press drives it high.
C40_RunningTracksEnable ==
    [][ /\ motor_running' = motor_enable'
        /\ ((EnterAlone /\ motor_enable = 0) => motor_enable' = 1) ]_vars

====
